---- MODULE Spec2Model ----
(***************************************************************************)
(* A model of parserrtm: the record-schema tables of the longwave and      *)
(* shortwave variants, the record-order resolver, and the sequential       *)
(* reader / writer engine of class Input.                                  *)
(*                                                                         *)
(* A field name is a pair <<base, index>>: 'WKL(3,L)' is <<"WKL", 3>>,     *)
(* 'SEMISS(5)' is <<"SEMISS", 5>>, an unindexed name such as 'IATM' is     *)
(* <<"IATM", 0>>.  A Document is a function from the names that are set    *)
(* (the instance's attributes) to values; a value is a scalar or a list.   *)
(* A result of a method is a record [err, val]: err = "none" when the      *)
(* method returns val, and the exception's type when it raises.            *)
(***************************************************************************)
EXTENDS Integers, Sequences, FiniteSets, TLC

VARIABLES
    variant,    \* "LW" (InputLW) or "SW" (InputSW)
    doc,        \* the Document: the instance's field attributes
    lines,      \* self.lines: the lines of the file being read
    read_i,     \* self.read_i: the read cursor
    end_i,      \* end_i of the running read
    pc,         \* position of the running method
    lay,        \* loop index, or number of lines a greedy read still expects
    err,        \* exception raised by the running method ("none": none)
    warned,     \* the incomplete-read warning was issued
    res,        \* result of the last call of a pure method
    arg,        \* argument of that call
    calls,      \* the record reads made so far: record, values decoded, names, line
    rundupe,    \* the copy that write_record drains
    todo,       \* records the writer still has to encode
    out,        \* lines handed to f.write so far
    written,    \* files written: a function from file name to lines
    orig,       \* the Document as it was before the write
    phase,      \* which method of the scenario is running
    lastw       \* the last write_record call: record, occurrence, names, values

vars == <<variant, doc, lines, read_i, end_i, pc, lay, err, warned, res, arg,
          calls, rundupe, todo, out, written, orig, phase, lastw>>

-----------------------------------------------------------------------------
(* Bounds of the model *)

MaxLayers == 2
MaxCld == 3
MaxLines == 4
MaxIBMAX == 17
\* the longest list of inputs handed to Runner.run
MaxJobs == 2
\* the largest n_workers of a Runner
MaxWorkers == 2

-----------------------------------------------------------------------------
(* Values and results *)

Scalar(x) == [t |-> "s", v |-> <<x>>]
List(s) == [t |-> "l", v |-> s]
IsList(val) == val.t = "l"

Ok(x) == [err |-> "none", val |-> x]
Raise(e) == [err |-> e, val |-> <<>>]

Nm(base) == <<base, 0>>
\* [f'{base}({I})' for I in range(a, b+1)]
NameSeq(base, a, b) == [i \in 1..(b - a + 1) |-> <<base, a + i - 1>>]

hasattr(d, n) == n \in DOMAIN d
\* an element of a field list is a str; getattr and setattr raise TypeError
\* for the function object that InputSW.get_fields leaves in 'C1.3'
IsString(n) == n # Nm("<lambda>")
\* the value of a scalar control field
attr(d, base) == d[Nm(base)].v[1]
setattr(d, n, val) == [m \in (DOMAIN d) \cup {n} |-> IF m = n THEN val ELSE d[m]]

Range(s) == {s[i] : i \in DOMAIN s}
Count(x, s) == Cardinality({i \in DOMAIN s : s[i] = x})
NoDup(s) == \A i, j \in DOMAIN s : s[i] = s[j] => i = j
Abs(x) == IF x < 0 THEN -x ELSE x
Min(a, b) == IF a < b THEN a ELSE b
\* a loop whose body runs once whatever the count
RepOnce(s, n) == s
\* the records appended by `for i in range(n)` with a body appending s
RECURSIVE Rep(_, _)
Rep(s, n) == IF n <= 0 THEN <<>> ELSE s \o Rep(s, n - 1)

-----------------------------------------------------------------------------
(* Fortran formats: a format is a sequence of edit descriptors, n the      *)
(* repeat count (the width for X), w the width, d the decimals.            *)

X(n) == [t |-> "X", n |-> n, w |-> 1, d |-> 0]
I(n, w) == [t |-> "I", n |-> n, w |-> w, d |-> 0]
F(n, w, d) == [t |-> "F", n |-> n, w |-> w, d |-> d]
ES(n, w, d) == [t |-> "ES", n |-> n, w |-> w, d |-> d]
E(n, w, d) == [t |-> "E", n |-> n, w |-> w, d |-> d]
A(n, w) == [t |-> "A", n |-> n, w |-> w, d |-> 0]
Slash == [t |-> "/", n |-> 0, w |-> 0, d |-> 0]

IsData(ed) == ed.t \in {"I", "F", "ES", "E", "A"}

\* The data edit descriptors of a format, repeat counts expanded: one per
\* value that a read returns or a write consumes in one pass of the format.
RECURSIVE Slots(_)
Slots(fmt) ==
    IF fmt = <<>> THEN <<>>
    ELSE (IF IsData(Head(fmt)) THEN Rep(<<Head(fmt)>>, Head(fmt).n) ELSE <<>>)
         \o Slots(Tail(fmt))

NVals(fmt) == Len(Slots(fmt))

\* '8ES10.3' if flag == 0 else '8ES15.7'
ESn(n, flag) == IF flag = 0 THEN ES(n, 10, 3) ELSE ES(n, 15, 7)

\* InputLW.get_format
LWFormat(d, rec) ==
    CASE rec = "1.1" -> Ok(<<A(1, 80)>>)
      [] rec = "1.2" -> Ok(<<X(49), I(1, 1), X(19), I(1, 1), X(12), I(1, 1), I(1, 2),
                             X(2), I(1, 3), X(4), I(1, 1)>>)
      [] rec = "1.4" -> Ok(<<F(1, 10, 3), X(1), I(1, 1), X(2), I(1, 1), F(16, 5, 3)>>)
      [] rec = "2.1" -> Ok(<<X(1), I(1, 1), I(1, 3), I(1, 5)>>)
      [] rec = "2.1.1" ->
            IF ~hasattr(d, Nm("IFORM")) THEN Raise("AttributeError")
            ELSE Ok(<<IF attr(d, "IFORM") = 0 THEN F(1, 10, 4) ELSE ES(1, 15, 7),
                      F(1, 10, 4), X(23), F(1, 8, 3), F(1, 7, 2), X(7), F(1, 8, 3),
                      F(1, 7, 2)>>)
      [] rec \in {"2.1.2", "2.1.3"} ->
            IF ~hasattr(d, Nm("IFORM")) THEN Raise("AttributeError")
            ELSE Ok(<<ESn(8, attr(d, "IFORM"))>>)
      [] rec = "2.2" -> Ok(<<I(1, 5)>>)
      [] rec \in {"2.2.1", "3.7.1"} -> Ok(<<A(7, 10), Slash, A(8, 10)>>)
      [] rec = "2.2.2" -> Ok(<<X(1), I(1, 1)>>)
      [] rec = "2.2.3" -> Ok(<<A(1, 1)>>)
      [] rec = "2.2.4" ->
            IF ~hasattr(d, Nm("IFRMX")) THEN Raise("AttributeError")
            ELSE Ok(<<ESn(7, attr(d, "IFRMX"))>>)
      [] rec = "2.2.5" ->
            IF ~hasattr(d, Nm("IFRMX")) THEN Raise("AttributeError")
            ELSE Ok(<<ESn(8, attr(d, "IFRMX"))>>)
      [] rec = "3.1" -> Ok(<<I(1, 5), X(5), I(1, 5), X(5), I(1, 5), I(1, 5), I(1, 5),
                             X(3), I(1, 2), F(1, 10, 3), X(20), F(1, 10, 3)>>)
      [] rec = "3.2" -> Ok(<<F(1, 10, 3), F(1, 10, 3)>>)
      [] rec = "3.3A" -> Ok(<<F(1, 10, 3), F(1, 10, 3), F(1, 10, 3), F(1, 10, 3),
                              F(1, 10, 3)>>)
      [] rec = "3.3B" -> Ok(<<F(8, 10, 3)>>)
      [] rec = "3.4" -> Ok(<<I(1, 5), A(3, 8)>>)
      [] rec = "3.5" -> Ok(<<F(1, 10, 3), F(1, 10, 3), F(1, 10, 3), X(5), A(1, 1),
                             A(1, 1), X(3), A(28, 1)>>)
      [] rec \in {"3.6.1", "3.8.2"} -> Ok(<<ES(8, 10, 3)>>)
      [] rec = "3.7" -> Ok(<<I(1, 5), I(1, 5), I(1, 5)>>)
      [] rec = "3.8" -> Ok(<<I(1, 5), I(1, 5), A(1, 50)>>)
      [] rec = "3.8.1" -> Ok(<<F(1, 10, 3), X(5), A(35, 1)>>)
      [] rec = "C1.1" -> Ok(<<X(3), I(1, 2), X(4), I(1, 1), X(4), I(1, 1)>>)
      [] rec \in {"C1.2", "C1.3"} ->
            Ok(<<A(1, 1), X(1), I(1, 3), ES(1, 10, 3), ES(1, 10, 3), ES(1, 10, 3),
                 ES(1, 10, 3), ES(1, 10, 3)>>)
      [] rec = "C1.3A" -> Ok(<<X(15), E(1, 10, 5), E(1, 10, 5), E(16, 10, 5)>>)
      [] OTHER -> Raise("KeyError")

\* InputSW.get_format
SWFormat(d, rec) ==
    CASE rec = "1.1" -> Ok(<<A(1, 80)>>)
      [] rec = "1.2" -> Ok(<<X(18), I(1, 2), X(29), I(1, 1), X(32), I(1, 1), X(1),
                             I(1, 1), X(2), I(1, 3), X(4), I(1, 1), X(3), I(1, 1),
                             I(1, 1)>>)
      [] rec = "1.2.1" -> Ok(<<X(12), I(1, 3), F(1, 7, 4), X(4), I(1, 1), F(14, 5, 3)>>)
      [] rec = "1.4" -> Ok(<<X(11), I(1, 1), X(2), I(1, 1), F(14, 5, 3)>>)
      [] rec = "2.1" -> Ok(<<X(1), I(1, 1), I(1, 3), I(1, 5)>>)
      [] rec = "2.1.1" ->
            IF ~hasattr(d, Nm("IFORM")) THEN Raise("AttributeError")
            ELSE Ok(<<IF attr(d, "IFORM") = 0 THEN F(1, 10, 4) ELSE ES(1, 15, 7),
                      F(1, 10, 4), X(23), F(1, 8, 3), F(1, 7, 2), X(7), F(1, 8, 3),
                      F(1, 7, 2)>>)
      [] rec \in {"2.1.2", "2.1.3"} ->
            IF ~hasattr(d, Nm("IFORM")) THEN Raise("AttributeError")
            ELSE Ok(<<ESn(8, attr(d, "IFORM"))>>)
      [] rec = "3.1" -> Ok(<<I(1, 5), X(5), I(1, 5), X(5), I(1, 5), I(1, 5), I(1, 5),
                             X(3), I(1, 2), F(1, 10, 3), X(20), F(1, 10, 3),
                             F(1, 10, 3)>>)
      [] rec = "3.2" -> Ok(<<F(1, 10, 3), F(1, 10, 3)>>)
      [] rec = "3.3A" -> Ok(<<F(1, 10, 3), F(1, 10, 3), F(1, 10, 3), F(1, 10, 3),
                              F(1, 10, 3)>>)
      [] rec = "3.3B" -> Ok(<<F(8, 10, 3)>>)
      [] rec = "3.4" -> Ok(<<I(1, 5), A(3, 8)>>)
      [] rec = "3.5" -> Ok(<<F(1, 10, 3), F(1, 10, 3), F(1, 10, 3), X(5), A(1, 1),
                             A(1, 1), X(3), A(28, 1)>>)
      [] rec \in {"3.6.1", "3.8.2"} -> Ok(<<ES(8, 10, 3)>>)
      [] rec = "3.8" -> Ok(<<I(1, 5), I(1, 5), A(1, 50)>>)
      [] rec = "3.8.1" -> Ok(<<F(1, 10, 3), X(5), A(35, 1)>>)
      [] rec = "C1.1" -> Ok(<<X(4), I(1, 1), X(4), I(1, 1), X(4), I(1, 1)>>)
      [] rec = "C1.2" -> Ok(<<A(1, 1), X(1), I(1, 3), ES(1, 10, 3), ES(1, 10, 3),
                              ES(1, 10, 3), ES(16, 10, 3)>>)
      [] rec = "C1.3" -> Ok(<<A(1, 1), X(1), I(1, 3), ES(1, 10, 3), ES(1, 10, 3),
                              ES(1, 10, 3), ES(1, 10, 3), ES(1, 10, 3)>>)
      [] rec = "A1.1" -> Ok(<<X(3), I(1, 2)>>)
      [] rec = "A2.1" -> Ok(<<X(3), I(1, 2), X(4), I(1, 1), X(4), I(1, 1), X(4),
                              I(1, 1), F(3, 8, 2)>>)
      [] rec = "A2.1.1" ->
            IF ~hasattr(d, Nm("IAOD")) THEN Raise("AttributeError")
            ELSE Ok(<<X(2), I(1, 3),
                      IF attr(d, "IAOD") = 0 THEN F(1, 7, 4) ELSE F(14, 7, 4)>>)
      [] rec \in {"A2.2", "A2.3"} -> Ok(<<F(14, 5, 2)>>)
      [] OTHER -> Raise("KeyError")

get_format(v, d, rec) == IF v = "LW" THEN LWFormat(d, rec) ELSE SWFormat(d, rec)

-----------------------------------------------------------------------------
(* Field-name lists *)

\* ['TESTCHAR', 'LAY', 'CLDFRAC', tau, 'SINGLE-SCATTERING ALBEDO',
\*  *[f'PMOM({N})' for N in range(self.NSTR)]]
PmomFields(d, tau) ==
    IF ~hasattr(d, Nm("NSTR")) THEN Raise("AttributeError")
    ELSE Ok(<<Nm("TESTCHAR"), Nm("LAY"), Nm("CLDFRAC"), Nm(tau),
              Nm("SINGLE-SCATTERING ALBEDO")>>
            \o NameSeq("PMOM", 0, attr(d, "NSTR") - 1))

\* entries that InputLW.get_fields and InputSW.get_fields have in common
CommonFields(d, rec) ==
    CASE rec = "1.1" -> Ok(<<Nm("CXID")>>)
      [] rec = "2.1" -> Ok(<<Nm("IFORM"), Nm("NLAYRS"), Nm("NMOL")>>)
      [] rec = "2.1.1" -> Ok(<<Nm("PAVE"), Nm("TAVE"), Nm("PZ(L-1)"), Nm("TZ(L-1)"),
                               Nm("PZ(L)"), Nm("TZ(L)")>>)
      [] rec = "2.1.2" -> Ok(NameSeq("WKL", 1, 7) \o <<Nm("WBROAD(L)")>>)
      [] rec = "2.1.3" ->
            IF ~hasattr(d, Nm("NMOL")) THEN Raise("AttributeError")
            ELSE Ok(NameSeq("WKL", 0, attr(d, "NMOL") - 7 - 1))
      [] rec = "3.2" -> Ok(<<Nm("HBOUND"), Nm("HTOA")>>)
      [] rec = "3.3A" -> Ok(<<Nm("AVTRAT"), Nm("TDIFF1"), Nm("TDIFF2"), Nm("ALTD1"),
                              Nm("ALTD2")>>)
      [] rec = "3.3B" ->
            IF ~hasattr(d, Nm("IBMAX")) THEN Raise("AttributeError")
            ELSE Ok(NameSeq(IF attr(d, "IBMAX") > 0 THEN "ZBND" ELSE "PBND",
                            1, Abs(attr(d, "IBMAX"))))
      [] rec = "3.4" -> Ok(<<Nm("IMMAX"), Nm("HMOD")>>)
      [] rec = "3.5" -> Ok(<<Nm("ZM"), Nm("PM"), Nm("TM"), Nm("JCHARP"), Nm("JCHART")>>
                           \o NameSeq("JCHAR", 1, 28))
      [] rec = "3.6.1" ->
            IF ~hasattr(d, Nm("NMOL")) THEN Raise("AttributeError")
            ELSE Ok(NameSeq("VMOL", 1, attr(d, "NMOL")))
      [] rec = "3.8" -> Ok(<<Nm("LAYX"), Nm("IZORP"), Nm("XTITLE")>>)
      [] rec = "3.8.1" -> Ok(<<Nm("ZORP")>> \o NameSeq("JCHARX", 1, 28))
      [] rec = "3.8.2" ->
            IF ~hasattr(d, Nm("IXMOLS")) THEN Raise("AttributeError")
            ELSE Ok(NameSeq("DENX", 1, attr(d, "IXMOLS")))
      [] rec = "C1.1" -> Ok(<<Nm("INFLAG"), Nm("ICEFLAG"), Nm("LIQFLAG")>>)
      [] OTHER -> Raise("KeyError")

\* InputLW.get_fields
LWFields(d, rec) ==
    CASE rec = "1.2" -> Ok(<<Nm("IATM"), Nm("IXSECT"), Nm("ISCAT"), Nm("NUMANGS"),
                             Nm("IOUT"), Nm("ICLD")>>)
      [] rec = "1.4" -> Ok(<<Nm("TBOUND"), Nm("IEMIS"), Nm("IREFLECT")>>
                           \o NameSeq("SEMISS", 1, 16))
      [] rec = "2.2" -> Ok(<<Nm("IXMOLS")>>)
      [] rec \in {"2.2.1", "3.7.1"} ->
            IF ~hasattr(d, Nm("IXMOLS")) THEN Raise("AttributeError")
            ELSE Ok(NameSeq("XSNAME", 1, attr(d, "IXMOLS")))
      [] rec = "2.2.2" -> Ok(<<Nm("IFRMX")>>)
      [] rec = "2.2.3" -> Ok(<<Nm("_")>>)
      [] rec = "2.2.4" -> Ok(NameSeq("XAMNT", 1, 7))
      [] rec = "3.1" -> Ok(<<Nm("MODEL"), Nm("IBMAX"), Nm("NOPRNT"), Nm("NMOL"),
                             Nm("IPUNCH"), Nm("MUNITS"), Nm("RE"), Nm("CO2MX")>>)
      [] rec = "3.7" -> Ok(<<Nm("IXMOLS"), Nm("IPRFL"), Nm("IXSBIN")>>)
      [] rec = "C1.2" -> Ok(<<Nm("TESTCHAR"), Nm("LAY"), Nm("CLDFRAC"), Nm("CWP"),
                              Nm("FRACICE"), Nm("EFFSIZEICE"), Nm("EFFSIZELIQ")>>)
      [] rec = "C1.3" -> PmomFields(d, "TAUCLD")
      [] rec = "C1.3A" ->
            IF ~hasattr(d, Nm("NSTR")) THEN Raise("AttributeError")
            ELSE Ok(<<Nm("TAUCLD"), Nm("SINGLE-SCATTERING ALBEDO")>>
                    \o NameSeq("PMOM", 0, attr(d, "NSTR") - 1))
      [] OTHER -> CommonFields(d, rec)

\* InputSW.get_fields; the fourth element of 'C1.3' is a function object that
\* get_fields never calls, not a string: <<"<lambda>", 0>>
SWFields(d, rec) ==
    CASE rec = "1.2" -> Ok(<<Nm("IAER"), Nm("IATM"), Nm("ISCAT"), Nm("ISTRM"),
                             Nm("IOUT"), Nm("ICLD"), Nm("IDELM"), Nm("ICOS")>>)
      [] rec = "1.2.1" -> Ok(<<Nm("JULDAT"), Nm("SZA"), Nm("ISOLVAR")>>
                             \o NameSeq("SOLVAR", 16, 29))
      [] rec = "1.4" -> Ok(<<Nm("IEMIS"), Nm("IREFLECT")>> \o NameSeq("SEMISS", 1, 16))
      [] rec = "3.1" -> Ok(<<Nm("MODEL"), Nm("IBMAX"), Nm("NOPRNT"), Nm("NMOL"),
                             Nm("IPUNCH"), Nm("MUNITS"), Nm("RE"), Nm("CO2MX"),
                             Nm("REF_LAT")>>)
      [] rec = "C1.3" -> Ok(<<Nm("TESTCHAR"), Nm("LAY"), Nm("CLDFRAC"), Nm("<lambda>"),
                              Nm("FRACICE"), Nm("EFFSIZEICE"), Nm("EFFSIZELIQ")>>)
      [] rec = "C1.2" ->
            IF ~hasattr(d, Nm("INFLAG")) THEN Raise("AttributeError")
            ELSE PmomFields(d, IF attr(d, "INFLAG") = 0 THEN "TAUCLD" ELSE "CWP")
      [] rec = "A1.1" -> Ok(<<Nm("NAER")>>)
      [] rec = "A2.1" -> Ok(<<Nm("NLAY"), Nm("IAOD"), Nm("ISSA"), Nm("IPHA")>>
                            \o NameSeq("AERPAR", 1, 3))
      [] rec = "A2.1.1" ->
            IF ~hasattr(d, Nm("IAOD")) THEN Raise("AttributeError")
            ELSE IF attr(d, "IAOD") = 0 THEN Ok(<<Nm("LAY"), Nm("AOD1")>>)
            ELSE Ok(<<Nm("LAY")>> \o NameSeq("AOD", 16, 29))
      [] rec = "A2.2" -> Ok(NameSeq("SSA", 16, 29))
      [] rec = "A2.3" -> Ok(NameSeq("PHASE", 16, 29))
      [] OTHER -> CommonFields(d, rec)

get_fields(v, d, rec) == IF v = "LW" THEN LWFields(d, rec) ELSE SWFields(d, rec)

-----------------------------------------------------------------------------
(* Cardinality of records *)

\* Input.islist
islist(rec) ==
    rec \in {"2.1.1", "2.1.2", "2.1.3", "2.2.3", "2.2.4", "2.2.5", "3.5", "3.6.1",
             "3.8.1", "3.8.2", "C1.2", "C1.3", "C1.3a"}

\* the index held in the last element of LAY taken for the number of layers
LayLast(d) ==
    IF IsList(d[Nm("LAY")]) /\ d[Nm("LAY")].v # <<>>
    THEN d[Nm("LAY")].v[Len(d[Nm("LAY")].v)] ELSE 1
\* 1 if type(self.LAY) != list else len(self.LAY)
LayCount(d) == IF IsList(d[Nm("LAY")]) THEN Len(d[Nm("LAY")].v) ELSE 1

\* Input.record_len
record_len(d, rec) ==
    CASE rec \in {"2.1.1", "2.1.2", "2.1.3", "2.2.3", "2.2.4", "2.2.5"} ->
            IF hasattr(d, Nm("NLAYRS")) THEN Ok(attr(d, "NLAYRS"))
            ELSE Raise("AttributeError")
      [] rec \in {"3.5", "3.6.1"} ->
            IF hasattr(d, Nm("IMMAX")) THEN Ok(attr(d, "IMMAX"))
            ELSE Raise("AttributeError")
      [] rec \in {"3.8.1", "3.8.2"} ->
            IF hasattr(d, Nm("LAYX")) THEN Ok(attr(d, "LAYX"))
            ELSE Raise("AttributeError")
      [] rec \in {"C1.2", "C1.3"} ->
            IF hasattr(d, Nm("LAY")) THEN Ok(LayCount(d)) ELSE Raise("AttributeError")
      [] rec = "C1.3a" -> Ok(15)
      [] OTHER -> Raise("KeyError")

-----------------------------------------------------------------------------
(* Record orders.  InputLW and InputSW define the two methods with the     *)
(* same text.                                                              *)

Lacks(d, bases) == \E b \in bases : ~hasattr(d, Nm(b))
When(c, s) == IF c THEN s ELSE <<>>

\* get_logical_record_order, file == 'input_rrtm'
LogicalInput(d) ==
    IF Lacks(d, {"IATM"}) THEN Raise("AttributeError")
    ELSE IF attr(d, "IATM") = 0 THEN
        IF Lacks(d, {"NMOL", "IXSECT"}) THEN Raise("AttributeError")
        ELSE IF attr(d, "IXSECT") = 1 /\ Lacks(d, {"IXMOLS"}) THEN Raise("AttributeError")
        ELSE Ok(<<"1.1", "1.2", "1.4", "2.1", "2.1.1", "2.1.2">>
                \o When(attr(d, "NMOL") > 7, <<"2.1.3">>)
                \o When(attr(d, "IXSECT") = 1,
                        <<"2.2", "2.2.1", "2.2.2", "2.2.3", "2.2.4">>
                        \o When(attr(d, "IXMOLS") > 7, <<"2.2.5">>)))
    ELSE IF attr(d, "IATM") = 1 THEN
        IF Lacks(d, {"IBMAX", "MODEL", "IXSECT"}) THEN Raise("AttributeError")
        ELSE IF attr(d, "IXSECT") = 1 /\ Lacks(d, {"IPRFL"}) THEN Raise("AttributeError")
        ELSE Ok(<<"1.1", "1.2", "1.4", "3.1", "3.2">>
                \o (IF attr(d, "IBMAX") = 0 THEN <<"3.3A">> ELSE <<"3.3B">>)
                \o When(attr(d, "MODEL") = 0, <<"3.4", "3.5", "3.6.1">>)
                \o When(attr(d, "IXSECT") = 1,
                        <<"3.7", "3.7.1">>
                        \o When(attr(d, "IPRFL") = 0, <<"3.8", "3.8.1", "3.8.2">>)))
    ELSE Ok(<<"1.1", "1.2", "1.4">>)

\* get_logical_record_order, file == 'in_cld_rrtm': one 'C1.3' is appended
\* per element of LAY, and len(self.LAY) is evaluated whatever LAY holds
LogicalCld(d) ==
    IF Lacks(d, {"INFLAG"}) THEN Raise("AttributeError")
    ELSE IF attr(d, "INFLAG") \in {1, 2} THEN Ok(<<"C1.1", "C1.2">>)
    ELSE IF attr(d, "INFLAG") \in {0, 10} THEN
        IF Lacks(d, {"LAY"}) THEN Raise("AttributeError")
        ELSE IF ~IsList(d[Nm("LAY")]) THEN Raise("TypeError")
        ELSE IF Len(d[Nm("LAY")].v) > 0 /\ attr(d, "INFLAG") = 10
             THEN Raise("NotImplementedError")
        ELSE Ok(<<"C1.1">> \o Rep(<<"C1.3">>, Len(d[Nm("LAY")].v)))
    ELSE Ok(<<"C1.1">>)

get_logical_record_order(d, file) ==
    CASE file = "input_rrtm" -> LogicalInput(d)
      [] file = "in_cld_rrtm" -> LogicalCld(d)
      [] OTHER -> Raise("UnboundLocalError")

\* get_explicit_record_order, file == 'input_rrtm'
ExplicitInput(d) ==
    IF Lacks(d, {"IATM"}) THEN Raise("AttributeError")
    ELSE IF attr(d, "IATM") = 0 THEN
        IF Lacks(d, {"NLAYRS"}) THEN Raise("AttributeError")
        ELSE IF attr(d, "NLAYRS") > 0 /\ Lacks(d, {"NMOL"}) THEN Raise("AttributeError")
        ELSE IF Lacks(d, {"IXSECT"}) THEN Raise("AttributeError")
        ELSE IF attr(d, "IXSECT") = 1 /\ attr(d, "NLAYRS") > 0 /\ Lacks(d, {"IXMOLS"})
             THEN Raise("AttributeError")
        ELSE Ok(<<"1.1", "1.2", "1.4", "2.1">>
                \o When(attr(d, "NLAYRS") > 0,
                        Rep(<<"2.1.1", "2.1.2">> \o When(attr(d, "NMOL") > 7, <<"2.1.3">>),
                            attr(d, "NLAYRS")))
                \o When(attr(d, "IXSECT") = 1,
                        <<"2.2", "2.2.1", "2.2.2">>
                        \o When(attr(d, "NLAYRS") > 0,
                                Rep(<<"2.2.3", "2.2.4">>
                                    \o When(attr(d, "IXMOLS") > 7, <<"2.2.5">>),
                                    attr(d, "NLAYRS")))))
    ELSE IF attr(d, "IATM") = 1 THEN
        IF Lacks(d, {"IBMAX", "MODEL"}) THEN Raise("AttributeError")
        ELSE IF attr(d, "MODEL") = 0 /\ Lacks(d, {"IMMAX"}) THEN Raise("AttributeError")
        ELSE IF Lacks(d, {"IXSECT"}) THEN Raise("AttributeError")
        ELSE IF attr(d, "IXSECT") = 1 /\ Lacks(d, {"IPRFL"}) THEN Raise("AttributeError")
        ELSE IF attr(d, "IXSECT") = 1 /\ attr(d, "IPRFL") = 0 /\ Lacks(d, {"LAYX"})
             THEN Raise("AttributeError")
        ELSE Ok(<<"1.1", "1.2", "1.4", "3.1", "3.2">>
                \o (IF attr(d, "IBMAX") = 0 THEN <<"3.3A">> ELSE <<"3.3B">>)
                \o When(attr(d, "MODEL") = 0,
                        <<"3.4">> \o Rep(<<"3.5", "3.6.1">>, attr(d, "IMMAX")))
                \o When(attr(d, "IXSECT") = 1,
                        <<"3.7", "3.7.1">>
                        \o When(attr(d, "IPRFL") = 0,
                                <<"3.8">> \o Rep(<<"3.8.1", "3.8.2">>, attr(d, "LAYX")))))
    ELSE Ok(<<"1.1", "1.2", "1.4">>)

\* get_explicit_record_order, file == 'in_cld_rrtm'
ExplicitCld(d) ==
    IF Lacks(d, {"INFLAG"}) THEN Raise("AttributeError")
    ELSE IF attr(d, "INFLAG") \in {1, 2} THEN
        IF Lacks(d, {"LAY"}) THEN Raise("AttributeError")
        ELSE Ok(<<"C1.1">> \o Rep(<<"C1.2">>, LayCount(d)))
    ELSE IF attr(d, "INFLAG") \in {0, 10} THEN
        IF Lacks(d, {"LAY"}) THEN Raise("AttributeError")
        ELSE IF LayCount(d) > 0 /\ attr(d, "INFLAG") = 10 THEN Raise("NotImplementedError")
        ELSE Ok(<<"C1.1">> \o Rep(<<"C1.3">>, LayCount(d)))
    ELSE Ok(<<"C1.1">>)

get_explicit_record_order(d, file) ==
    CASE file = "input_rrtm" -> ExplicitInput(d)
      [] file = "in_cld_rrtm" -> ExplicitCld(d)
      [] OTHER -> Raise("UnboundLocalError")

-----------------------------------------------------------------------------
(* Documents of control fields, as from_dict builds them *)

\* a Document holding the scalar fields of the record ctl
MkDoc(ctl) == [n \in {Nm(b) : b \in DOMAIN ctl} |-> Scalar(ctl[n[1]])]

Counts == 0..MaxLayers

PrimaryCtl ==
    [IATM : {0, 1, 2}, NLAYRS : Counts, NMOL : {7, 8}, IXSECT : {0, 1},
     IXMOLS : {7, 8}, IBMAX : {0, 1}, MODEL : {0, 1}, IMMAX : Counts,
     IPRFL : {0, 1}, LAYX : Counts, INFLAG : {1}, LAY : {1}]

CloudCtl ==
    [IATM : {0}, NLAYRS : {1}, NMOL : {7}, IXSECT : {0},
     IXMOLS : {7}, IBMAX : {0}, MODEL : {0}, IMMAX : {1},
     IPRFL : {0}, LAYX : {1}, INFLAG : {0, 1, 2, 5, 10}, LAY : {1}]

\* LAY as a list of n cloudy layers
LayList(n) == List([i \in 1..n |-> i])

PrimaryDocs == {MkDoc(c) : c \in PrimaryCtl}

CloudDocs ==
    {MkDoc(c) : c \in CloudCtl}
    \cup {setattr(MkDoc(c), Nm("LAY"), LayList(n)) : c \in CloudCtl, n \in 0..MaxCld}

Pending == Raise("pending")
NoFile == <<>>

-----------------------------------------------------------------------------
(* Specification SpecOrder: the two order methods applied to a Document *)

InitOrder ==
    /\ variant \in {"LW", "SW"}
    /\ \/ doc \in PrimaryDocs /\ arg = "input_rrtm"
       \/ doc \in CloudDocs /\ arg \in {"in_cld_rrtm", "in_aer_rrtm"}
    /\ res = [log |-> Pending, exp |-> Pending]
    /\ lines = <<>> /\ read_i = 0 /\ end_i = 0 /\ pc = "idle" /\ lay = 0
    /\ err = "none" /\ warned = FALSE /\ calls = <<>>
    /\ rundupe = <<>> /\ todo = <<>> /\ out = <<>> /\ written = NoFile
    /\ orig = <<>> /\ phase = "orders" /\ lastw = <<>>

CallLogical ==
    /\ res.log = Pending
    /\ res' = [res EXCEPT !.log = get_logical_record_order(doc, arg)]
    /\ UNCHANGED <<variant, doc, lines, read_i, end_i, pc, lay, err, warned, arg,
                   calls, rundupe, todo, out, written, orig, phase, lastw>>

CallExplicit ==
    /\ res.exp = Pending
    /\ res' = [res EXCEPT !.exp = get_explicit_record_order(doc, arg)]
    /\ UNCHANGED <<variant, doc, lines, read_i, end_i, pc, lay, err, warned, arg,
                   calls, rundupe, todo, out, written, orig, phase, lastw>>

NextOrder == CallLogical \/ CallExplicit

SpecOrder == InitOrder /\ [][NextOrder]_vars

BothOrders == res.log # Pending /\ res.exp # Pending

-----------------------------------------------------------------------------
(* Claims about the record orders, specification SpecOrder *)

\* the repeated records of the logical order and their lengths
RepeatedLens == {record_len(doc, r).val : r \in {x \in Range(res.log.val) : islist(x)}}

\* C2: whenever get_logical_record_order returns, for either file, the order
\* it returns holds no record id more than once.
C2_LogicalNoRepeat == res.log.err = "none" => NoDup(res.log.val)

\* C3: whenever get_explicit_record_order returns an order, the logical order
\* exists, every non-repeated record of the logical order occurs once in the
\* explicit order, every repeated record record_len times, and the explicit
\* order holds no record that the logical order lacks.
C3_ExplicitExpandsLogical ==
    (BothOrders /\ res.exp.err = "none") =>
        /\ res.log.err = "none"
        /\ \A r \in Range(res.log.val) :
              Count(r, res.exp.val) = IF islist(r) THEN record_len(doc, r).val ELSE 1
        /\ Range(res.exp.val) \subseteq Range(res.log.val)

-----------------------------------------------------------------------------
(* Lines and the line codec.  A line is its first character ("$", "%" or   *)
(* " " for any other), the record whose column layout it was written in,   *)
(* and the values its columns hold, in the order of that layout's data     *)
(* edit descriptors.  Numbers are counted in units of 10^-4; a text is a   *)
(* number too, Dollar being a text that begins with '$' (the CXID of       *)
(* record 1.1, whose line is the file's start line).  Read through the     *)
(* format of another record, a line's columns do not line up with the      *)
(* descriptors: the model reads them as blank, and a blank field is 0.     *)

Dollar == -1
Line(c, rec, vs) == [first |-> c, rec |-> rec, vals |-> vs]

Pow2(n) == IF n = 0 THEN 1 ELSE IF n = 1 THEN 2 ELSE 4
RECURSIVE Pow10(_)
Pow10(n) == IF n <= 0 THEN 1 ELSE 10 * Pow10(n - 1)

\* the value as an Fw.d field prints it: d decimals are kept
Quant(x, ed) ==
    IF ed.t = "F" /\ x >= 0 THEN (x \div Pow10(4 - ed.d)) * Pow10(4 - ed.d) ELSE x

\* number of values a read takes from the first line: those before a '/'
RECURSIVE FirstLineVals(_)
FirstLineVals(fmt) ==
    IF fmt = <<>> \/ Head(fmt).t = "/" THEN 0
    ELSE (IF IsData(Head(fmt)) THEN Head(fmt).n ELSE 0) + FirstLineVals(Tail(fmt))

\* FortranRecordReader(fmt).read(s): one value per data edit descriptor; the
\* values the line does not hold are zero-filled (RET_UNWRITTEN_VARS_NONE = False)
Decode(line, fmt, rec) ==
    [k \in 1..NVals(fmt) |->
        IF line.rec = rec /\ k <= FirstLineVals(fmt) /\ k <= Len(line.vals)
        THEN line.vals[k] ELSE 0]

\* FortranRecordWriter(fmt).write(vals): the values are written through the
\* format's descriptors; when the format is used up it is reused on a new line
RECURSIVE EncodeLines(_, _, _)
EncodeLines(vals, fmt, rec) ==
    LET n == IF FirstLineVals(fmt) > 0 THEN FirstLineVals(fmt) ELSE 1
        m == Min(n, Len(vals))
        slots == Slots(fmt)
        head == [k \in 1..m |-> Quant(vals[k], slots[k])]
        c == IF m > 0 /\ Head(fmt).t = "A" /\ vals[1] = Dollar THEN "$" ELSE " "
    IN  IF Len(vals) <= n THEN <<Line(c, rec, head)>>
        ELSE <<Line(c, rec, head)>>
             \o EncodeLines(SubSeq(vals, m + 1, Len(vals)),
                            IF NVals(fmt) > n THEN SubSeq(slots, n + 1, NVals(fmt))
                            ELSE fmt, rec)

-----------------------------------------------------------------------------
(* File bounds *)

\* [i for i,s in enumerate(lines) if s[0]==c]
Indices(lns, c) == {i \in 0..(Len(lns) - 1) : lns[i + 1].first = c}

\* Input.get_input_rrtm_file_bounds; the message of the IOError names fpath,
\* which the function does not define, so building it raises NameError
get_input_rrtm_file_bounds(lns, file) ==
    LET starts == IF file = "in_cld_rrtm" THEN {0} ELSE Indices(lns, "$")
        ends == Indices(lns, "%")
    IN  IF Cardinality(starts) = Cardinality(ends) /\ Cardinality(ends) = 1
           /\ (CHOOSE i \in starts : TRUE) < (CHOOSE i \in ends : TRUE)
        THEN Ok(<<CHOOSE i \in starts : TRUE, CHOOSE i \in ends : TRUE>>)
        ELSE Raise("NameError")

-----------------------------------------------------------------------------
(* Specification SpecBounds: the bounds function applied to a list of lines *)

RECURSIVE SeqsUpTo(_, _)
SeqsUpTo(S, n) ==
    IF n = 0 THEN {<<>>}
    ELSE LET shorter == SeqsUpTo(S, n - 1)
         IN  shorter \cup {Append(q, x) : q \in shorter, x \in S}

MarkLines == {Line("$", "1.1", <<Dollar>>), Line("%", "", <<>>), Line(" ", "", <<>>)}

InitBounds ==
    /\ variant \in {"LW", "SW"}
    /\ lines \in SeqsUpTo(MarkLines, MaxLines)
    /\ arg \in {"input_rrtm", "in_cld_rrtm"}
    /\ res = Pending
    /\ doc = <<>> /\ read_i = 0 /\ end_i = 0 /\ pc = "idle" /\ lay = 0
    /\ err = "none" /\ warned = FALSE /\ calls = <<>>
    /\ rundupe = <<>> /\ todo = <<>> /\ out = <<>> /\ written = NoFile
    /\ orig = <<>> /\ phase = "bounds" /\ lastw = <<>>

CallBounds ==
    /\ res = Pending
    /\ res' = get_input_rrtm_file_bounds(lines, arg)
    /\ UNCHANGED <<variant, doc, lines, read_i, end_i, pc, lay, err, warned, arg,
                   calls, rundupe, todo, out, written, orig, phase, lastw>>

NextBounds == CallBounds

SpecBounds == InitBounds /\ [][NextBounds]_vars

\* C5: the bounds function returns (s, e) exactly when one line begins with
\* '$' (for 'in_cld_rrtm': the start is line 0), one line begins with '%' and
\* s < e, s and e being those lines; for every other list of lines it raises
\* IOError.
C5_BoundsOrIOError ==
    LET starts == IF arg = "in_cld_rrtm" THEN {0} ELSE Indices(lines, "$")
        ends == Indices(lines, "%")
        valid == \E s \in starts, e \in ends : starts = {s} /\ ends = {e} /\ s < e
    IN  res # Pending =>
            IF valid THEN res.err = "none" /\ starts = {res.val[1]} /\ ends = {res.val[2]}
            ELSE res.err = "IOError"

-----------------------------------------------------------------------------
(* The sequential reader *)

\* A field that mode 'append depth' has touched is a list of lists:
\* [t |-> "n", v |-> elements], each element a value Scalar(x) or List(s).
Nested(s) == [t |-> "n", v |-> s]
\* the elements of an outer list, each as a value
Elements(f) == IF f.t = "n" THEN f.v ELSE [i \in DOMAIN f.v |-> Scalar(f.v[i])]
\* l2 = l[-1]; if type(l2) != list: l2 = [l2]
Promote(e) == IF IsList(e) THEN e.v ELSE <<e.v[1]>>

\* an assignment loop that takes mode 'append depth' for mode 'append'
RECURSIVE AssignFlat(_, _, _, _, _)
AssignFlat(d, names, fields, k, mode) ==
    IF k > Len(names) \/ k > Len(fields) THEN [err |-> "none", doc |-> d]
    ELSE IF ~IsString(names[k]) THEN [err |-> "TypeError", doc |-> d]
    ELSE IF mode = "new"
         THEN AssignFlat(setattr(d, names[k], Scalar(fields[k])), names, fields, k + 1, mode)
    ELSE IF ~hasattr(d, names[k]) THEN [err |-> "AttributeError", doc |-> d]
    ELSE LET l == IF IsList(d[names[k]]) THEN d[names[k]].v ELSE <<d[names[k]].v[1]>>
         IN  AssignFlat(setattr(d, names[k], List(Append(l, fields[k]))),
                        names, fields, k + 1, mode)

\* the loop `for key, val in zip(names, fields)` of read_record, from pair k:
\* [err, doc], doc holding the assignments made before an exception
RECURSIVE Assign(_, _, _, _, _)
Assign(d, names, fields, k, mode) ==
    IF k > Len(names) \/ k > Len(fields) THEN [err |-> "none", doc |-> d]
    ELSE IF ~IsString(names[k]) THEN [err |-> "TypeError", doc |-> d]
    ELSE IF mode = "new"
         THEN Assign(setattr(d, names[k], Scalar(fields[k])), names, fields, k + 1, mode)
    ELSE IF ~hasattr(d, names[k]) THEN [err |-> "AttributeError", doc |-> d]
    ELSE IF mode = "append"
         THEN LET f == d[names[k]]
                  l == IF f.t = "n" THEN Nested(Append(f.v, Scalar(fields[k])))
                       ELSE IF IsList(f) THEN List(Append(f.v, fields[k]))
                       ELSE List(<<f.v[1], fields[k]>>)
              IN  Assign(setattr(d, names[k], l), names, fields, k + 1, mode)
    ELSE LET f == d[names[k]]
             l == Elements(f)
         IN  IF f.t = "s" THEN [err |-> "TypeError", doc |-> d]
             ELSE IF l = <<>> THEN [err |-> "IndexError", doc |-> d]
             ELSE Assign(setattr(d, names[k],
                                 Nested([l EXCEPT ![Len(l)] =
                                            List(Append(Promote(l[Len(l)]), fields[k]))])),
                         names, fields, k + 1, mode)

NoCall == [rec |-> "", by |-> "", fields |-> <<>>, names |-> <<>>, at |-> 0]

\* a read_record that catches what decoding a record raises and goes on to
\* the next line
ReadOn(v, d, lns, ri, rec, mode) ==
    LET fmt == get_format(v, d, rec)
        names == get_fields(v, d, rec)
        fields == Decode(lns[ri + 1], fmt.val, rec)
        a == Assign(d, names.val, fields, 1, mode)
    IN  IF ri >= Len(lns) \/ fmt.err # "none" \/ names.err # "none"
        THEN [err |-> "none", doc |-> d, read_i |-> ri + 1, call |-> NoCall]
        ELSE [err |-> "none", doc |-> a.doc, read_i |-> ri + 1,
              call |-> [rec |-> rec, by |-> "read_record", fields |-> fields,
                        names |-> names.val, at |-> ri]]
\* Input.read_record: [err, doc, read_i, call]
read_record(v, d, lns, ri, rec, mode) ==
    LET fmt == get_format(v, d, rec)
        names == get_fields(v, d, rec)
        fields == Decode(lns[ri + 1], fmt.val, rec)
        a == Assign(d, names.val, fields, 1, mode)
    IN  IF ri >= Len(lns)
        THEN [err |-> "IndexError", doc |-> d, read_i |-> ri, call |-> NoCall]
        ELSE IF fmt.err # "none"
        THEN [err |-> fmt.err, doc |-> d, read_i |-> ri, call |-> NoCall]
        ELSE IF names.err # "none"
        THEN [err |-> names.err, doc |-> d, read_i |-> ri, call |-> NoCall]
        ELSE [err |-> a.err, doc |-> a.doc,
              read_i |-> IF a.err = "none" THEN ri + 1 ELSE ri,
              call |-> [rec |-> rec, by |-> "read_record", fields |-> fields,
                        names |-> names.val, at |-> ri]]

\* the pairs zip(names, fields) adds to the dict `record`
Zip(names, fields) == [k \in 1..Min(Len(names), Len(fields)) |-> <<names[k], fields[k]>>]

\* a greedy read that stops after its first line, whatever is still missing
GreedyOneLine(record, names, inames, lns, ri, fmt, rec) ==
    [err |-> "none", record |-> record, read_i |-> ri]
\* the while loop of Input.read_greedy_record: [err, record, read_i]
RECURSIVE GreedyLoop(_, _, _, _, _, _, _)
GreedyLoop(record, names, inames, lns, ri, fmt, rec) ==
    IF Len(record) >= inames THEN [err |-> "none", record |-> record, read_i |-> ri]
    ELSE LET keys == {record[k][1] : k \in DOMAIN record}
             Missing(n) == n \notin keys
             rest == SelectSeq(names, Missing)
         IN  IF ri >= Len(lns)
             THEN [err |-> "IndexError", record |-> record, read_i |-> ri]
             ELSE GreedyLoop(record \o Zip(rest, Decode(lns[ri + 1], fmt, rec)),
                             rest, inames, lns, ri + 1, fmt, rec)

\* Input.read_greedy_record: [err, doc, read_i, call]
read_greedy_record(v, d, lns, ri, rec) ==
    LET fmt == get_format(v, d, rec)
        names == get_fields(v, d, rec)
        first == Zip(names.val, Decode(lns[ri + 1], fmt.val, rec))
        g == GreedyLoop(first, names.val, Len(names.val), lns, ri + 1, fmt.val, rec)
        filled == Assign(d, [k \in DOMAIN g.record |-> g.record[k][1]],
                         [k \in DOMAIN g.record |-> g.record[k][2]], 1, "new")
    IN  IF ri >= Len(lns)
        THEN [err |-> "IndexError", doc |-> d, read_i |-> ri, call |-> NoCall]
        ELSE IF fmt.err # "none"
        THEN [err |-> fmt.err, doc |-> d, read_i |-> ri, call |-> NoCall]
        ELSE IF names.err # "none"
        THEN [err |-> names.err, doc |-> d, read_i |-> ri, call |-> NoCall]
        ELSE IF g.err # "none"
        THEN [err |-> g.err, doc |-> d, read_i |-> g.read_i, call |-> NoCall]
        ELSE [err |-> "none", doc |-> filled.doc, read_i |-> g.read_i,
              call |-> [rec |-> rec, by |-> "read_greedy_record",
                        fields |-> [k \in DOMAIN g.record |-> g.record[k][2]],
                        names |-> names.val, at |-> ri]]

\* where Input.read_input_rrtm goes next
Go(p, i) == [err |-> "none", pc |-> p, lay |-> i]
Fail(e) == [err |-> e, pc |-> "raised", lay |-> 0]

\* if self.IXSECT == 1: (IATM == 0 branch)
AfterLayers(d) ==
    IF Lacks(d, {"IXSECT"}) THEN Fail("AttributeError")
    ELSE IF attr(d, "IXSECT") = 1 THEN Go("2.2", 0) ELSE Go("check", 0)

\* if self.IXSECT == 1: (IATM == 1 branch)
AfterModel(d) ==
    IF Lacks(d, {"IXSECT"}) THEN Fail("AttributeError")
    ELSE IF attr(d, "IXSECT") = 1 THEN Go("3.7", 0) ELSE Go("check", 0)

\* the next pass of `for i in range(count)`, or what follows the loop
Loop(first, i, count, after) == IF i + 1 < count THEN Go(first, i + 1) ELSE after

\* the statements of Input.read_input_rrtm between the read of record rec
\* (in pass i of its loop) and the next read
Flow(rec, i, d) ==
    CASE rec = "1.1" -> Go("1.2", 0)
      [] rec = "1.2" -> Go("1.4", 0)
      [] rec = "1.4" ->
            IF Lacks(d, {"IATM"}) THEN Fail("AttributeError")
            ELSE IF attr(d, "IATM") = 0 THEN Go("2.1", 0)
            ELSE IF attr(d, "IATM") = 1 THEN Go("3.1", 0)
            ELSE Go("check", 0)
      [] rec = "2.1" -> IF attr(d, "NLAYRS") > 0 THEN Go("2.1.1", 0) ELSE AfterLayers(d)
      [] rec = "2.1.1" -> Go("2.1.2", i)
      [] rec = "2.1.2" ->
            IF attr(d, "NMOL") > 7 THEN Go("2.1.3", i)
            ELSE Loop("2.1.1", i, attr(d, "NLAYRS"), AfterLayers(d))
      [] rec = "2.1.3" -> Loop("2.1.1", i, attr(d, "NLAYRS"), AfterLayers(d))
      [] rec = "2.2" -> Go("2.2.1", 0)
      [] rec = "2.2.1" -> Go("2.2.2", 0)
      [] rec = "2.2.2" -> IF attr(d, "NLAYRS") > 0 THEN Go("2.2.3", 0) ELSE Go("check", 0)
      [] rec = "2.2.3" -> Go("2.2.4", i)
      [] rec = "2.2.4" ->
            IF attr(d, "IXMOLS") > 7 THEN Go("2.2.5", i)
            ELSE Loop("2.2.3", i, attr(d, "NLAYRS"), Go("check", 0))
      [] rec = "2.2.5" -> Loop("2.2.3", i, attr(d, "NLAYRS"), Go("check", 0))
      [] rec = "3.1" -> Go("3.2", 0)
      [] rec = "3.2" -> IF attr(d, "IBMAX") = 0 THEN Go("3.3A", 0) ELSE Go("3.3B", 0)
      [] rec \in {"3.3A", "3.3B"} ->
            IF attr(d, "MODEL") = 0 THEN Go("3.4", 0) ELSE AfterModel(d)
      [] rec = "3.4" -> IF attr(d, "IMMAX") > 0 THEN Go("3.5", 0) ELSE AfterModel(d)
      [] rec = "3.5" -> Go("3.6.1", i)
      [] rec = "3.6.1" -> Loop("3.5", i, attr(d, "IMMAX"), AfterModel(d))
      [] rec = "3.7" -> Go("3.7.1", 0)
      [] rec = "3.7.1" -> IF attr(d, "IPRFL") = 0 THEN Go("3.8", 0) ELSE Go("check", 0)
      [] rec = "3.8" -> IF attr(d, "LAYX") > 0 THEN Go("3.8.1", 0) ELSE Go("check", 0)
      [] rec = "3.8.1" -> Go("3.8.2", i)
      [] rec = "3.8.2" -> Loop("3.8.1", i, attr(d, "LAYX"), Go("check", 0))

Reading == phase \in {"read", "reread"}

\* a read that never finds lines left unread
UnreadNever(ri, ei) == FALSE
\* if self.read_i != end_i: warnings.warn(...)
Unread(ri, ei) == ri # ei

\* read_input_rrtm up to its first read_record: the bounds, the cursor
StartRead ==
    /\ Reading /\ pc = "start"
    /\ LET b == get_input_rrtm_file_bounds(lines, "input_rrtm")
       IN  IF b.err = "none"
           THEN /\ read_i' = b.val[1] /\ end_i' = b.val[2] /\ pc' = "1.1"
                /\ err' = err
           ELSE /\ pc' = "raised" /\ err' = b.err
                /\ UNCHANGED <<read_i, end_i>>
    /\ UNCHANGED <<variant, doc, lines, lay, warned, res, arg, calls, rundupe, todo,
                   out, written, orig, phase, lastw>>

\* one read_record call of read_input_rrtm and the branch that follows it
ReadStep ==
    /\ Reading /\ pc \notin {"start", "3.3B", "check", "done", "raised"}
    /\ LET r == read_record(variant, doc, lines, read_i, pc,
                            IF lay = 0 THEN "new" ELSE "append")
           f == Flow(pc, lay, r.doc)
       IN  /\ doc' = r.doc /\ read_i' = r.read_i
           /\ calls' = IF r.call = NoCall THEN calls ELSE Append(calls, r.call)
           /\ IF r.err # "none"
              THEN pc' = "raised" /\ err' = r.err /\ lay' = lay
              ELSE pc' = f.pc /\ err' = f.err /\ lay' = f.lay
    /\ UNCHANGED <<variant, lines, end_i, warned, res, arg, rundupe, todo, out,
                   written, orig, phase, lastw>>

\* the read_greedy_record call of read_input_rrtm and the branch after it
ReadGreedy ==
    /\ Reading /\ pc = "3.3B"
    /\ LET r == read_greedy_record(variant, doc, lines, read_i, pc)
           f == Flow(pc, lay, r.doc)
       IN  /\ doc' = r.doc /\ read_i' = r.read_i
           /\ calls' = IF r.call = NoCall THEN calls ELSE Append(calls, r.call)
           /\ IF r.err # "none"
              THEN pc' = "raised" /\ err' = r.err /\ lay' = lay
              ELSE pc' = f.pc /\ err' = f.err /\ lay' = f.lay
    /\ UNCHANGED <<variant, lines, end_i, warned, res, arg, rundupe, todo, out,
                   written, orig, phase, lastw>>

\* the end of read_input_rrtm: the warning, del self.lines, return
ReadCheck ==
    /\ Reading /\ pc = "check"
    /\ warned' = Unread(read_i, end_i)
    /\ lines' = <<>>
    /\ pc' = "done"
    /\ UNCHANGED <<variant, doc, read_i, end_i, lay, err, res, arg, calls, rundupe,
                   todo, out, written, orig, phase, lastw>>

NextRead == StartRead \/ ReadStep \/ ReadGreedy \/ ReadCheck

-----------------------------------------------------------------------------
(* The writer *)

\* the loop of Input.write_record over names, from name k on: [err, doc, vals],
\* doc being the instance after the pops
RECURSIVE Drain(_, _, _, _)
Drain(d, names, k, vals) ==
    IF k > Len(names) THEN [err |-> "none", doc |-> d, vals |-> vals]
    ELSE IF ~IsString(names[k]) THEN [err |-> "TypeError", doc |-> d, vals |-> vals]
    ELSE IF ~hasattr(d, names[k]) THEN [err |-> "AttributeError", doc |-> d, vals |-> vals]
    ELSE IF ~IsList(d[names[k]])
         THEN Drain(d, names, k + 1, Append(vals, d[names[k]].v[1]))
    ELSE IF d[names[k]].v = <<>> THEN [err |-> "IndexError", doc |-> d, vals |-> vals]
    ELSE Drain(setattr(d, names[k], List(Tail(d[names[k]].v))), names, k + 1,
               Append(vals, Head(d[names[k]].v)))

\* Input.write_record: [err, doc, names, vals, lines]
write_record(v, d, rec) ==
    LET fmt == get_format(v, d, rec)
        names == get_fields(v, d, rec)
        w == Drain(d, names.val, 1, <<>>)
    IN  IF fmt.err # "none"
        THEN [err |-> fmt.err, doc |-> d, names |-> <<>>, vals |-> <<>>, lines |-> <<>>]
        ELSE IF names.err # "none"
        THEN [err |-> names.err, doc |-> d, names |-> <<>>, vals |-> <<>>, lines |-> <<>>]
        ELSE [err |-> w.err, doc |-> w.doc, names |-> names.val, vals |-> w.vals,
              lines |-> IF w.err = "none" THEN EncodeLines(w.vals, fmt.val, rec)
                        ELSE <<>>]

Blank == Line(" ", "", <<>>)
Percent == Line("%", "", <<>>)

\* what write_input_rrtm writes before the records, and each writer after them
Header(kind) == IF kind = "input_rrtm" THEN <<Blank, Blank, Blank>> ELSE <<>>
Footer(kind) == IF kind = "input_rrtm" THEN <<Percent>> ELSE <<Percent, Blank>>

\* the default file names of Input.write
Path(file) ==
    CASE file = "input_rrtm" -> "INPUT_RRTM"
      [] file = "in_cld_rrtm" -> "IN_CLD_RRTM"
      [] file = "in_aer_rrtm" -> "IN_AER_RRTM"

\* the records that methods[file] of Input.write encodes
Method(file) ==
    CASE file = "input_rrtm" -> "input_rrtm"
      [] file = "in_aer_rrtm" -> "in_cld_rrtm"
      [] file = "in_cld_rrtm" -> "in_aer_rrtm"

Job(file) == [kind |-> Method(file), path |-> Path(file)]

\* Input.write(fpath, file='auto') up to the loop over files
CallWrite ==
    /\ phase = "write" /\ pc = "call"
    /\ IF Lacks(doc, {"ICLD"}) \/ Lacks(doc, {"IAER"})
       THEN pc' = "raised" /\ err' = "AttributeError" /\ arg' = <<>>
       ELSE /\ arg' = <<Job("input_rrtm")>>
                      \o When(attr(doc, "ICLD") > 0, <<Job("in_cld_rrtm")>>)
                      \o When(attr(doc, "IAER") > 0, <<Job("in_aer_rrtm")>>)
            /\ pc' = "open" /\ err' = err
    /\ UNCHANGED <<variant, doc, lines, read_i, end_i, lay, warned, res, calls,
                   rundupe, todo, out, written, orig, phase, lastw>>

\* a shallow copy shares its lists with self: the pops reach the caller
CallerShared(d, dupe) == dupe
\* self after rundupe.write_record(rec), rundupe being self.copy(), a deep
\* copy: the pops reach the lists of the copy only
Caller(d, dupe) == d

\* a file writer up to its first write_record: the explicit order, the copy,
\* the opening of the file; or the return of Input.write after the last file
WriteOpen ==
    /\ phase = "write" /\ pc = "open"
    /\ IF arg = <<>>
       THEN pc' = "done" /\ UNCHANGED <<err, rundupe, todo, out, written>>
       ELSE LET records == get_explicit_record_order(doc, Head(arg).kind)
            IN  IF records.err # "none"
                THEN /\ pc' = "raised" /\ err' = records.err
                     /\ UNCHANGED <<rundupe, todo, out, written>>
                ELSE /\ rundupe' = doc /\ todo' = records.val
                     /\ out' = Header(Head(arg).kind)
                     /\ written' = setattr(written, Head(arg).path,
                                           [from |-> Head(arg).kind, lines |-> out'])
                     /\ pc' = "rec" /\ err' = err
    /\ UNCHANGED <<variant, doc, lines, read_i, end_i, lay, warned, res, arg, calls,
                   orig, phase, lastw>>

\* one pass of the writer's loop: write_record on the copy, f.write
WriteRecord ==
    /\ phase = "write" /\ pc = "rec" /\ todo # <<>>
    /\ LET w == write_record(variant, rundupe, Head(todo))
       IN  /\ rundupe' = w.doc
           /\ lastw' = [rec |-> Head(todo), names |-> w.names, vals |-> w.vals,
                        err |-> w.err, kind |-> Head(arg).kind,
                        occ |-> Count(Head(todo),
                                      get_explicit_record_order(doc, Head(arg).kind).val)
                                - Count(Head(todo), todo) + 1]
           /\ out' = out \o w.lines
           /\ IF w.err = "none"
              THEN pc' = pc /\ err' = err /\ todo' = Tail(todo)
              ELSE pc' = "raised" /\ err' = w.err /\ todo' = todo
           /\ doc' = Caller(doc, w.doc)
    /\ written' = setattr(written, Head(arg).path,
                          [from |-> Head(arg).kind, lines |-> out'])
    /\ UNCHANGED <<variant, lines, read_i, end_i, lay, warned, res, arg, calls,
                   orig, phase>>

\* the end of a file writer: the '%' line, the closing of the file
WriteClose ==
    /\ phase = "write" /\ pc = "rec" /\ todo = <<>>
    /\ out' = out \o Footer(Head(arg).kind)
    /\ written' = setattr(written, Head(arg).path,
                          [from |-> Head(arg).kind, lines |-> out'])
    /\ arg' = Tail(arg)
    /\ pc' = "open"
    /\ UNCHANGED <<variant, doc, lines, read_i, end_i, lay, err, warned, res, calls,
                   rundupe, todo, orig, phase, lastw>>

-----------------------------------------------------------------------------
(* Well-formed primary files, as the RRTM instructions lay them out *)

\* a line of record rec: the control values ctl first, n values in all
Rec(rec, ctl, n) == [rec |-> rec, ctl |-> ctl, n |-> n]

\* n values of record rec, w to a line (the first line holds w1)
RECURSIVE Wrap(_, _, _, _)
Wrap(rec, n, w1, w) ==
    IF n <= w1 THEN <<Rec(rec, <<>>, n)>>
    ELSE <<Rec(rec, <<>>, w1)>> \o Wrap(rec, n - w1, w, w)

\* records 2.1 to 2.2.5
LayerBlock(c) ==
    <<Rec("2.1", <<c.IFORM, c.NLAYRS, c.NMOL>>, 3)>>
    \o Rep(<<Rec("2.1.1", <<>>, 6), Rec("2.1.2", <<>>, 8)>>
           \o When(c.NMOL > 7, Wrap("2.1.3", c.NMOL - 7, 8, 8)), c.NLAYRS)
    \o When(c.IXSECT = 1,
            <<Rec("2.2", <<c.IXMOLS>>, 1)>> \o Wrap("2.2.1", c.IXMOLS, 7, 8)
            \o <<Rec("2.2.2", <<0>>, 1)>>
            \o Rep(<<Rec("2.2.3", <<>>, 1), Rec("2.2.4", <<>>, Min(7, c.IXMOLS))>>
                   \o When(c.IXMOLS > 7, <<Rec("2.2.5", <<>>, c.IXMOLS - 7)>>),
                   c.NLAYRS))

\* records 3.1 to 3.8.2
AtmosBlock(v, c) ==
    <<Rec("3.1", <<c.MODEL, c.IBMAX, 0, c.NMOL>>, IF v = "LW" THEN 8 ELSE 9),
      Rec("3.2", <<>>, 2)>>
    \o (IF c.IBMAX = 0 THEN <<Rec("3.3A", <<>>, 5)>>
        ELSE Wrap("3.3B", Abs(c.IBMAX), 8, 8))
    \o When(c.MODEL = 0,
            <<Rec("3.4", <<c.IMMAX>>, 4)>>
            \o Rep(<<Rec("3.5", <<>>, 33)>> \o Wrap("3.6.1", c.NMOL, 8, 8), c.IMMAX))
    \o When(c.IXSECT = 1,
            <<Rec("3.7", <<c.IXMOLS, c.IPRFL, 0>>, 3)>> \o Wrap("3.7.1", c.IXMOLS, 7, 8)
            \o When(c.IPRFL = 0,
                    <<Rec("3.8", <<c.LAYX, 0>>, 3)>>
                    \o Rep(<<Rec("3.8.1", <<>>, 36)>> \o Wrap("3.8.2", c.IXMOLS, 8, 8),
                           c.LAYX)))

\* the records of a file, one entry per line
FileRecs(v, c) ==
    <<Rec("1.1", <<Dollar>>, 1)>>
    \o (IF v = "LW"
        THEN <<Rec("1.2", <<c.IATM, c.IXSECT, c.ISCAT, c.NUMANGS, 0, c.ICLD>>, 6),
               Rec("1.4", <<>>, 19)>>
        ELSE <<Rec("1.2", <<0, c.IATM, c.ISCAT, 0, 0, c.ICLD, 0, 0>>, 8),
               Rec("1.2.1", <<>>, 17), Rec("1.4", <<>>, 16)>>)
    \o (IF c.IATM = 0 THEN LayerBlock(c)
        ELSE IF c.IATM = 1 THEN AtmosBlock(v, c)
        ELSE <<>>)

\* a title line, the records from the '$' line on, the '%' line; value k of
\* line i that is no control value is 100 * i + k
GenFile(v, c) ==
    LET recs == FileRecs(v, c)
    IN  <<Blank>>
        \o [i \in 1..Len(recs) |->
              Line(IF recs[i].rec = "1.1" THEN "$" ELSE " ", recs[i].rec,
                   [k \in 1..recs[i].n |->
                      IF k <= Len(recs[i].ctl) THEN recs[i].ctl[k] ELSE 100 * i + k])]
        \o <<Percent>>

NoIBMAX == [IBMAX |-> 0, MODEL |-> 1, IMMAX |-> 0, IPRFL |-> 1, LAYX |-> 0]
NoLayers == [IFORM |-> 0, NLAYRS |-> 0]
NoCloud == [ISCAT |-> 0, NUMANGS |-> 0, ICLD |-> 0]

\* the control values of the files read
LayerCtl ==
    {c @@ NoIBMAX @@ NoCloud : c \in [IATM : {0}, IFORM : {0, 1}, NLAYRS : Counts,
                           NMOL : {7, 8, 9}, IXSECT : {0, 1}, IXMOLS : {1, 8}]}
AtmosCtl ==
    {c @@ NoLayers @@ NoCloud : c \in [IATM : {1}, IBMAX : {0, 9}, MODEL : {0, 1}, IMMAX : Counts,
                            NMOL : {7, 9}, IXSECT : {0, 1}, IXMOLS : {1, 8},
                            IPRFL : {0, 1}, LAYX : Counts]}
GreedyCtl ==
    {c @@ NoLayers @@ NoCloud : c \in [IATM : {1}, IBMAX : (-MaxIBMAX..MaxIBMAX) \ {0},
                            MODEL : {1}, IMMAX : {0}, NMOL : {7}, IXSECT : {0},
                            IXMOLS : {1}, IPRFL : {1}, LAYX : {0}]}

\* the cross-section block is a longwave block
FileCtl(v) == {c \in LayerCtl \cup AtmosCtl : v = "SW" => c.IXSECT = 0}

-----------------------------------------------------------------------------
(* Specification SpecRead: a well-formed primary file is read, the Document *)
(* is written with write_input_rrtm, the written file is read into a new    *)
(* instance.                                                                *)

InitFile(files) ==
    /\ lines \in files
    /\ doc = <<>> /\ read_i = 0 /\ end_i = 0 /\ pc = "start" /\ lay = 0
    /\ err = "none" /\ warned = FALSE /\ calls = <<>> /\ res = Pending /\ arg = <<>>
    /\ rundupe = <<>> /\ todo = <<>> /\ out = <<>> /\ written = NoFile
    /\ orig = <<>> /\ phase = "read" /\ lastw = <<>>

InitRead ==
    /\ variant \in {"LW", "SW"}
    /\ InitFile({GenFile(variant, c) : c \in FileCtl(variant)})

\* write_input_rrtm(fpath) called on the Document that was read
CallWriteInput ==
    /\ phase = "read" /\ pc = "done"
    /\ phase' = "write" /\ pc' = "open"
    /\ arg' = <<[kind |-> "input_rrtm", path |-> "INPUT_RRTM"]>>
    /\ UNCHANGED <<variant, doc, lines, read_i, end_i, lay, err, warned, res, calls,
                   rundupe, todo, out, written, orig, lastw>>

\* a new instance is constructed from the written file
BeginReread ==
    /\ phase = "write" /\ pc = "done"
    /\ phase' = "reread" /\ pc' = "start"
    /\ orig' = doc /\ doc' = <<>>
    /\ lines' = written["INPUT_RRTM"].lines
    /\ calls' = <<>> /\ lay' = 0 /\ warned' = FALSE
    /\ UNCHANGED <<variant, read_i, end_i, err, res, arg, rundupe, todo, out,
                   written, lastw>>

NextRoundTrip ==
    \/ NextRead
    \/ CallWriteInput \/ WriteOpen \/ WriteRecord \/ WriteClose
    \/ BeginReread

SpecRead == InitRead /\ [][NextRoundTrip]_vars

-----------------------------------------------------------------------------
(* Specification SpecGreedy: files whose record 3.3B holds |IBMAX| values *)

InitGreedy ==
    /\ variant \in {"LW", "SW"}
    /\ InitFile({GenFile(variant, c) : c \in GreedyCtl})

SpecGreedy == InitGreedy /\ [][NextRead]_vars

-----------------------------------------------------------------------------
(* Claims about reading and the round trip, specification SpecRead *)

\* the edit descriptor through which field n of the Document orig is written
FieldSlot(n) ==
    LET recs == get_explicit_record_order(orig, "input_rrtm").val
        r == CHOOSE r \in Range(recs) : n \in Range(get_fields(variant, orig, r).val)
        names == get_fields(variant, orig, r).val
        slots == Slots(get_format(variant, orig, r).val)
        j == CHOOSE j \in DOMAIN names : names[j] = n
    IN  slots[((j - 1) % Len(slots)) + 1]

\* field n of the re-read Document is field n of orig: scalar or list alike,
\* the same length, element by element the same value at the format's precision
SameField(n) ==
    /\ doc[n].t = orig[n].t
    /\ Len(doc[n].v) = Len(orig[n].v)
    /\ \A k \in DOMAIN orig[n].v : doc[n].v[k] = Quant(orig[n].v[k], FieldSlot(n))

\* C1: for a Document read from a well-formed primary file, write_input_rrtm
\* writes the file, read_input_rrtm reads the written file, and the Document
\* it yields has the same field names and, field by field, the same scalar
\* value (at the format's precision) or a list of the same length holding the
\* same elements in the same order.
C1_RoundTrip ==
    /\ phase = "write" => pc # "raised"
    /\ phase = "reread" => pc # "raised"
    /\ (phase = "reread" /\ pc = "done") =>
          /\ DOMAIN doc = DOMAIN orig
          /\ \A n \in DOMAIN orig : SameField(n)

\* the reads of record r, in the order they were made
CallsOf(r) ==
    LET IsOfRecord(c) == c.rec = r
    IN  SelectSeq(calls, IsOfRecord)

\* C6: after read_input_rrtm of a file with IATM = 0 and NLAYRS = N >= 2, each
\* field of records 2.1.1, 2.1.2 and (when NMOL > 7) 2.1.3 is a list of N
\* elements: the values decoded for it at the N occurrences, in file order.
C6_RepeatedFieldsAreLists ==
    (phase = "read" /\ pc \in {"check", "done"}
       /\ attr(doc, "IATM") = 0 /\ attr(doc, "NLAYRS") >= 2) =>
        \A r \in {"2.1.1", "2.1.2"} \cup (IF attr(doc, "NMOL") > 7 THEN {"2.1.3"} ELSE {}) :
            LET names == get_fields(variant, doc, r).val
                occs == CallsOf(r)
            IN  \A j \in DOMAIN names :
                    /\ IsList(doc[names[j]])
                    /\ doc[names[j]].v = [k \in 1..attr(doc, "NLAYRS") |-> occs[k].fields[j]]

\* C7: at every read_record call the format decodes as many values from the
\* line as get_fields returns names for the record.
C7_ValuesMatchNames ==
    \A i \in DOMAIN calls :
        calls[i].by = "read_record" => Len(calls[i].fields) = Len(calls[i].names)

-----------------------------------------------------------------------------
(* Claims about the greedy read, specification SpecGreedy *)

\* the greedy read just made, if the last read was one and the lines are
\* still held
LastGreedy ==
    IF calls # <<>> /\ lines # <<>> /\ calls[Len(calls)].by = "read_greedy_record"
    THEN {calls[Len(calls)]} ELSE {}

\* C8: read_greedy_record of record 3.3B, with n = |IBMAX| names, moves the
\* cursor forward by ceil(n/8) lines and sets the k-th name to the k-th value
\* of those lines, 8 to a line.
C8_GreedyRead ==
    \A c \in LastGreedy :
        LET n == Len(c.names)
        IN  /\ n = Abs(attr(doc, "IBMAX"))
            /\ read_i = c.at + ((n + 7) \div 8)
            /\ \A k \in 1..n :
                  /\ hasattr(doc, c.names[k])
                  /\ doc[c.names[k]] =
                        Scalar(lines[c.at + 1 + ((k - 1) \div 8)].vals[((k - 1) % 8) + 1])

\* a greedy read of more than 8 names, which took more than one line
C8_Witness ==
    \E c \in LastGreedy : Len(c.names) > 8 /\ read_i > c.at + 1

-----------------------------------------------------------------------------
(* Specification SpecWrite: write(fpath, file='auto') on a Document built   *)
(* from a dictionary that holds every field of its records: a scalar for a  *)
(* field of a record that occurs once, a list with one element per          *)
(* occurrence for a field of a repeated record.                             *)

WriteBase ==
    [CXID : {Dollar}, ICLD : {0, 1}, IAER : {0, 1}, IFORM : {0}, IFRMX : {0},
     IXMOLS : {1}, INFLAG : {2}, NSTR : {0}]
WriteLayers ==
    [IATM : {0}, NLAYRS : Counts, NMOL : {7, 8, 9}, IXSECT : {0, 1}]
WriteAtmos ==
    [IATM : {1}, IBMAX : {0, 2}, MODEL : {0, 1}, IMMAX : Counts, NMOL : {7},
     IXSECT : {0, 1}, IPRFL : {0}, LAYX : Counts]

WriteCtl(v) ==
    {b @@ c : b \in WriteBase,
              c \in {x \in WriteLayers \cup WriteAtmos : v = "SW" => x.IXSECT = 0}}

\* the first record of recs that has the name n, and n's place in it
Owner(v, d, recs, n) ==
    LET i == CHOOSE i \in DOMAIN recs :
                 /\ n \in Range(get_fields(v, d, recs[i]).val)
                 /\ \A h \in 1..(i - 1) : n \notin Range(get_fields(v, d, recs[h]).val)
        names == get_fields(v, d, recs[i]).val
    IN  [i |-> i, j |-> CHOOSE j \in DOMAIN names : names[j] = n]

\* the Document of the control fields c, ncld cloudy layers, and a value for
\* every other field of the records of its two files; aslist: a field of a
\* repeated record that occurs once is a list of one element
FullDoc(v, c, ncld, aslist) ==
    LET d0 == MkDoc(c)
        recs == get_logical_record_order(d0, "input_rrtm").val
                \o get_logical_record_order(d0, "in_cld_rrtm").val
        names == UNION {Range(get_fields(v, d0, recs[i]).val) : i \in DOMAIN recs}
        count(r) == IF r = "C1.2" THEN ncld ELSE record_len(d0, r).val
        value(n) ==
            LET o == Owner(v, d0, recs, n)
                r == recs[o.i]
            IN  IF islist(r) /\ (count(r) # 1 \/ aslist)
                THEN List([k \in 1..count(r) |-> 1000 * o.i + 10 * o.j + k])
                ELSE Scalar(1000 * o.i + 10 * o.j + 1)
    IN  [n \in (DOMAIN d0) \cup names |-> IF n \in DOMAIN d0 THEN d0[n] ELSE value(n)]

InitWrite ==
    /\ variant \in {"LW", "SW"}
    /\ doc \in {FullDoc(variant, c, ncld, aslist) :
                    c \in WriteCtl(variant), ncld \in 1..MaxCld, aslist \in BOOLEAN}
    /\ lines = <<>> /\ read_i = 0 /\ end_i = 0 /\ pc = "call" /\ lay = 0
    /\ err = "none" /\ warned = FALSE /\ calls = <<>> /\ res = Pending /\ arg = <<>>
    /\ rundupe = <<>> /\ todo = <<>> /\ out = <<>> /\ written = NoFile
    /\ orig = <<>> /\ phase = "write" /\ lastw = <<>>

NextWrite == CallWrite \/ WriteOpen \/ WriteRecord \/ WriteClose

SpecWrite == InitWrite /\ [][NextWrite]_vars

-----------------------------------------------------------------------------
(* Claims about writing, specification SpecWrite *)

\* every list of a field of the records of the file being written has one
\* element per occurrence of its record
ListsMatchCounts ==
    LET recs == get_explicit_record_order(doc, lastw.kind).val
    IN  \A r \in Range(recs) : \A n \in Range(get_fields(variant, doc, r).val) :
            (hasattr(doc, n) /\ IsList(doc[n])) => Len(doc[n].v) = Count(r, recs)

\* C9: the write_record call of the k-th occurrence of a record takes, for
\* each field that is a list, the k-th element of the list and, for each
\* scalar field, the scalar; when every list has as many elements as its
\* record has occurrences, no call pops from an empty list.
C9_DrainsInOrder ==
    (lastw # <<>> /\ lastw.err \in {"none", "IndexError"}) =>
        /\ ListsMatchCounts => lastw.err = "none"
        /\ \A j \in DOMAIN lastw.vals :
              LET f == doc[lastw.names[j]]
              IN  IF IsList(f)
                  THEN lastw.occ <= Len(f.v) /\ lastw.vals[j] = f.v[lastw.occ]
                  ELSE lastw.vals[j] = f.v[1]

Ended == phase = "write" /\ pc \in {"done", "raised"}

\* C10: when write(fpath, file='auto') has ended, INPUT_RRTM is written, from
\* the 'input_rrtm' records; IN_CLD_RRTM is written iff ICLD > 0, from the
\* 'in_cld_rrtm' records; IN_AER_RRTM is written iff IAER > 0, from the
\* 'in_aer_rrtm' records.
C10_FilesWritten ==
    Ended =>
        /\ hasattr(written, "INPUT_RRTM") /\ written["INPUT_RRTM"].from = "input_rrtm"
        /\ hasattr(written, "IN_CLD_RRTM") <=> attr(doc, "ICLD") > 0
        /\ hasattr(written, "IN_CLD_RRTM") => written["IN_CLD_RRTM"].from = "in_cld_rrtm"
        /\ hasattr(written, "IN_AER_RRTM") <=> attr(doc, "IAER") > 0
        /\ hasattr(written, "IN_AER_RRTM") => written["IN_AER_RRTM"].from = "in_aer_rrtm"

-----------------------------------------------------------------------------
(* The reader of the cloud file *)

\* read_in_cld_rrtm, the derived parameter NSTR: [err, doc]; the message of
\* the ValueError names NUMANGS, which is no variable of the method, so
\* building it raises NameError
DeriveNSTR(d) ==
    LET d0 == setattr(d, Nm("NSTR"), Scalar(0))
        set(n) == [err |-> "none", doc |-> setattr(d, Nm("NSTR"), Scalar(n))]
    IN  IF Lacks(d, {"ISCAT"}) THEN [err |-> "AttributeError", doc |-> d0]
        ELSE IF attr(d, "ISCAT") \notin {1, 2} THEN [err |-> "none", doc |-> d0]
        ELSE IF Lacks(d, {"NUMANGS"}) THEN [err |-> "AttributeError", doc |-> d0]
        ELSE IF attr(d, "NUMANGS") = 0 THEN set(4)
        ELSE IF attr(d, "NUMANGS") = 1 THEN set(8)
        ELSE IF attr(d, "NUMANGS") = 2 THEN set(16)
        ELSE [err |-> "NameError", doc |-> d0]

\* while self.read_i < end_i: the next pass, or the end of the loop
While(ri, ei, next) == IF ri < ei THEN next ELSE Go("check", 0)

\* the statements of read_in_cld_rrtm between the read of record rec (pass i
\* of its loop, 0 for the read in mode 'new') and the next read
CldFlow(rec, i, d, ri, ei) ==
    CASE rec = "C1.1" ->
            IF Lacks(d, {"INFLAG"}) THEN Fail("AttributeError")
            ELSE IF attr(d, "INFLAG") \in {1, 2} THEN Go("C1.2", 0)
            ELSE IF attr(d, "INFLAG") \in {0, 10} THEN Go("C1.3", 0)
            ELSE Go("check", 0)
      [] rec = "C1.2" -> While(ri, ei, Go("C1.2", 1))
      [] rec = "C1.3" ->
            IF i = 0 THEN While(ri, ei, Go("C1.3", 1))
            ELSE IF Lacks(d, {"INFLAG"}) THEN Fail("AttributeError")
            ELSE IF attr(d, "INFLAG") = 10 THEN Go("C1.3a", 1)
            ELSE While(ri, ei, Go("C1.3", 1))
      [] rec = "C1.3a" ->
            IF i < 15 THEN Go("C1.3a", i + 1) ELSE While(ri, ei, Go("C1.3", 1))

CldReading == phase = "cldread"

\* read_in_cld_rrtm up to its first read_record: the bounds, the cursor, NSTR
StartCldRead ==
    /\ CldReading /\ pc = "start"
    /\ LET b == get_input_rrtm_file_bounds(lines, "in_cld_rrtm")
           n == DeriveNSTR(doc)
       IN  IF b.err # "none"
           THEN /\ pc' = "raised" /\ err' = b.err
                /\ UNCHANGED <<read_i, end_i, doc>>
           ELSE /\ read_i' = b.val[1] /\ end_i' = b.val[2]
                /\ doc' = n.doc
                /\ IF n.err = "none" THEN pc' = "C1.1" /\ err' = err
                   ELSE pc' = "raised" /\ err' = n.err
    /\ UNCHANGED <<variant, lines, lay, warned, res, arg, calls, rundupe, todo, out,
                   written, orig, phase, lastw>>

\* one read_record call of read_in_cld_rrtm and the branch that follows it
CldReadStep ==
    /\ CldReading /\ pc \in {"C1.1", "C1.2", "C1.3", "C1.3a"}
    /\ LET r == read_record(variant, doc, lines, read_i, pc,
                            IF pc = "C1.3a" THEN "append depth"
                            ELSE IF lay = 0 THEN "new" ELSE "append")
           f == CldFlow(pc, lay, r.doc, r.read_i, end_i)
       IN  /\ doc' = r.doc /\ read_i' = r.read_i
           /\ calls' = IF r.call = NoCall THEN calls ELSE Append(calls, r.call)
           /\ IF r.err # "none"
              THEN pc' = "raised" /\ err' = r.err /\ lay' = lay
              ELSE pc' = f.pc /\ err' = f.err /\ lay' = f.lay
    /\ UNCHANGED <<variant, lines, end_i, warned, res, arg, rundupe, todo, out,
                   written, orig, phase, lastw>>

\* the end of read_in_cld_rrtm: the warning, del self.lines, return
CldReadCheck ==
    /\ CldReading /\ pc = "check"
    /\ warned' = Unread(read_i, end_i)
    /\ lines' = <<>>
    /\ pc' = "done"
    /\ UNCHANGED <<variant, doc, read_i, end_i, lay, err, res, arg, calls,
                   rundupe, todo, out, written, orig, phase, lastw>>

NextCldRead == StartCldRead \/ CldReadStep \/ CldReadCheck

-----------------------------------------------------------------------------
(* Cloud files *)

\* the cloud record that read_in_cld_rrtm decodes for INFLAG
CloudRec(inflag) == IF inflag \in {0, 10} THEN "C1.3" ELSE "C1.2"

\* an IN_CLD_RRTM file: record C1.1, one line per cloudy layer (and its 15
\* lines of record C1.3a when INFLAG = 10), the '%' line, a closing comment;
\* value k of line i that is no control value is 100 * i + k
GenCld(v, inflag, n) ==
    LET layer == <<Rec(CloudRec(inflag), <<>>,
                       NVals(get_format(v, <<>>, CloudRec(inflag)).val))>>
                 \o When(inflag = 10, Rep(<<Rec("C1.3a", <<>>, 18)>>, 15))
        recs == <<Rec("C1.1", <<inflag, 0, 0>>, 3)>> \o Rep(layer, n)
    IN  [i \in 1..Len(recs) |->
            Line(" ", recs[i].rec,
                 [k \in 1..recs[i].n |->
                    IF k <= Len(recs[i].ctl) THEN recs[i].ctl[k] ELSE 100 * i + k])]
        \o <<Percent, Blank>>

-----------------------------------------------------------------------------
(* Specification SpecPaths: Input(path) and Input((path, path2)): the       *)
(* primary file is read, then the file at the second path, if one is given. *)

\* the control values of the primary files
PathsCtl(v) ==
    {c @@ NoIBMAX @@ [IFORM |-> 0, NLAYRS |-> 1, NMOL |-> 7, ICLD |-> 1] :
        c \in {x \in [IATM : {0, 1, 2}, IXSECT : {0, 1}, IXMOLS : {8}, ISCAT : {0, 1, 2},
                      NUMANGS : {0, 1, 2, 3}, IBMAX : {0, 2}] :
                 /\ v = "SW" => x.IXSECT = 0 /\ x.NUMANGS = 0
                 /\ x.IBMAX = 2 <=> x.IATM = 1
                 /\ x.IATM = 1 => x.IXSECT = 0
                 /\ x.ISCAT = 0 => x.NUMANGS = 0}}

\* second paths: a file that exists, and two that do not
SecondPaths == {"IN_CLD_RRTM", "none", ""}

InitPaths ==
    /\ variant \in {"LW", "SW"}
    /\ lines \in {GenFile(variant, c) : c \in PathsCtl(variant)}
    /\ arg \in {<<>>} \cup {<<p>> : p \in SecondPaths}
    /\ written \in {setattr(NoFile, "IN_CLD_RRTM",
                            [from |-> "in_cld_rrtm", lines |-> GenCld(variant, f, n)]) :
                        f \in {0, 1, 2, 5, 10}, n \in 0..MaxCld}
    /\ doc = <<>> /\ read_i = 0 /\ end_i = 0 /\ pc = "start" /\ lay = 0
    /\ err = "none" /\ warned = FALSE /\ calls = <<>> /\ res = Pending
    /\ rundupe = <<>> /\ todo = <<>> /\ out = <<>>
    /\ orig = <<>> /\ phase = "read" /\ lastw = <<>>

\* Input.__init__ with a sequence of two paths, after read_input_rrtm has
\* returned: self.read_in_cld_rrtm(fpath[1]) opens the file
OpenSecond ==
    /\ phase = "read" /\ pc = "done" /\ arg # <<>>
    /\ phase' = "cldread"
    /\ orig' = doc
    /\ IF hasattr(written, arg[1])
       THEN lines' = written[arg[1]].lines /\ pc' = "start" /\ err' = err
       ELSE lines' = lines /\ pc' = "raised" /\ err' = "FileNotFoundError"
    /\ lay' = 0
    /\ UNCHANGED <<variant, doc, read_i, end_i, warned, res, arg, calls, rundupe,
                   todo, out, written, lastw>>

NextPaths == NextRead \/ OpenSecond \/ NextCldRead

SpecPaths == InitPaths /\ [][NextPaths]_vars

-----------------------------------------------------------------------------
(* Claims about construction by paths, specification SpecPaths *)

\* a read method has returned
Returned == phase \in {"read", "cldread"} /\ pc = "done"

\* the fields that the read_record calls made so far have assigned
Decoded ==
    UNION {{calls[i].names[j] : j \in 1..Min(Len(calls[i].names), Len(calls[i].fields))} :
             i \in DOMAIN calls}

\* C16: when read_input_rrtm or read_in_cld_rrtm returns, it has raised
\* nothing, every decoded field is in the Document, and the warning was
\* issued exactly when the cursor differs from the index of the '%' line.
C16_IncompleteReadWarns ==
    Returned =>
        /\ err = "none"
        /\ warned <=> read_i # end_i
        /\ \A n \in Decoded : hasattr(doc, n)

\* read_in_cld_rrtm returned with lines left unread, and warned
C16_Witness ==
    /\ phase = "cldread" /\ pc = "done" /\ err = "none"
    /\ read_i # end_i /\ warned
    /\ hasattr(doc, Nm("INFLAG"))

\* C17: with one path only the primary file is decoded; with two paths the
\* secondary file is decoded after the primary file, unless the second path
\* is 'none' or empty: then nothing is decoded after the primary file, the
\* Document keeps the fields of the primary file and nothing is raised.
C17_ConstructionByPaths ==
    /\ arg = <<>> => phase = "read"
    /\ (arg # <<>> /\ arg[1] \in {"none", ""}) =>
          /\ phase = "cldread" => (pc = "done" /\ doc = orig)
          /\ err # "FileNotFoundError"
    /\ (arg # <<>> /\ arg[1] \notin {"none", ""} /\ phase = "cldread"
          /\ pc \notin {"start", "raised"}) =>
          \E i \in DOMAIN calls : calls[i].rec = "C1.1"

\* C19: once read_in_cld_rrtm is past its first statements, NSTR is 0 when
\* ISCAT is neither 1 nor 2, and 4, 8 or 16 for NUMANGS = 0, 1 or 2 when
\* it is; for any other NUMANGS the method has raised ValueError and no
\* cloud record was decoded.
C19_DerivedNSTR ==
    (phase = "cldread" /\ hasattr(doc, Nm("NSTR"))) =>
        IF attr(doc, "ISCAT") \notin {1, 2} THEN attr(doc, "NSTR") = 0
        ELSE IF hasattr(doc, Nm("NUMANGS")) /\ attr(doc, "NUMANGS") \in {0, 1, 2}
        THEN attr(doc, "NSTR") = 4 * Pow2(attr(doc, "NUMANGS"))
        ELSE /\ err = "ValueError"
             /\ \A i \in DOMAIN calls : calls[i].rec \notin {"C1.1", "C1.2", "C1.3", "C1.3a"}

-----------------------------------------------------------------------------
(* Claims about the schema, specifications SpecOrder and SpecRead *)

\* the orders returned so far
OrdersReturned == {o \in {res.log, res.exp} : o # Pending /\ o.err = "none"}

\* C13 (orders): for a Document with INFLAG = 10, whatever LAY holds, a call
\* of get_logical_record_order('in_cld_rrtm') or of
\* get_explicit_record_order('in_cld_rrtm') raises NotImplementedError.
C13_Inflag10FailsFast ==
    (arg = "in_cld_rrtm" /\ attr(doc, "INFLAG") = 10) =>
        \A o \in {res.log, res.exp} : o # Pending => o.err = "NotImplementedError"

\* C14: every record id of an order that a variant returns has an entry in
\* get_format and in get_fields of that variant, and each element of the
\* field list is a string.
C14_SchemaClosure ==
    \A o \in OrdersReturned : \A r \in Range(o.val) :
        /\ get_format(variant, doc, r).err # "KeyError"
        /\ get_fields(variant, doc, r).err # "KeyError"
        /\ \A n \in Range(get_fields(variant, doc, r).val) : IsString(n)

\* the record ids decoded so far, in order
RecordsRead == [i \in DOMAIN calls |-> calls[i].rec]

\* C15: when read_input_rrtm is past its last read, the record ids it has
\* decoded are get_explicit_record_order('input_rrtm') of the Document; and
\* it never fails on a control field that no earlier record has decoded.
C15_ReaderFollowsExplicit ==
    /\ (phase = "read" /\ pc \in {"check", "done"}) =>
          LET e == get_explicit_record_order(doc, "input_rrtm")
          IN  e.err = "none" /\ RecordsRead = e.val
    /\ (phase = "read" /\ pc = "raised") => err # "AttributeError"

-----------------------------------------------------------------------------
(* Specification SpecCloud: a Document with ICLD = 1 whose cloud-record     *)
(* fields are lists of n elements is written with write_in_cld_rrtm, and    *)
(* read_in_cld_rrtm reads the written file.                                 *)

\* ISCAT, NUMANGS and the NSTR that read_in_cld_rrtm derives from them
ScatCtl == {[ISCAT |-> 0, NUMANGS |-> 0, NSTR |-> 0],
            [ISCAT |-> 1, NUMANGS |-> 0, NSTR |-> 4]}

\* the Document of INFLAG and the scattering controls sc, every field of its
\* cloud record a list of n elements
CloudDoc(v, inflag, sc, n) ==
    LET d0 == MkDoc(sc @@ [ICLD |-> 1, INFLAG |-> inflag, ICEFLAG |-> 0, LIQFLAG |-> 0])
        names == get_fields(v, d0, CloudRec(inflag)).val
        set == {names[j] : j \in DOMAIN names} \cap {x \in Range(names) : IsString(x)}
        place(x) == CHOOSE j \in DOMAIN names : names[j] = x
    IN  [x \in (DOMAIN d0) \cup set |->
            IF x \in set THEN List([k \in 1..n |-> 1000 + 10 * place(x) + k]) ELSE d0[x]]

InitCloud ==
    /\ variant \in {"LW", "SW"}
    /\ doc \in {CloudDoc(variant, f, sc, n) : f \in {0, 1, 2}, sc \in ScatCtl, n \in 1..MaxCld}
    /\ lines = <<>> /\ read_i = 0 /\ end_i = 0 /\ pc = "call" /\ lay = 0
    /\ err = "none" /\ warned = FALSE /\ calls = <<>> /\ res = Pending /\ arg = <<>>
    /\ rundupe = <<>> /\ todo = <<>> /\ out = <<>> /\ written = NoFile
    /\ orig = <<>> /\ phase = "write" /\ lastw = <<>>

\* write_in_cld_rrtm(fpath) called on the Document
CallWriteCld ==
    /\ phase = "write" /\ pc = "call"
    /\ pc' = "open"
    /\ arg' = <<[kind |-> "in_cld_rrtm", path |-> "IN_CLD_RRTM"]>>
    /\ UNCHANGED <<variant, doc, lines, read_i, end_i, lay, err, warned, res, calls,
                   rundupe, todo, out, written, orig, phase, lastw>>

\* read_in_cld_rrtm(fpath) called on the Document, fpath the written file
CallReadCld ==
    /\ phase = "write" /\ pc = "done"
    /\ phase' = "cldread" /\ pc' = "start"
    /\ orig' = doc
    /\ lines' = written["IN_CLD_RRTM"].lines
    /\ calls' = <<>> /\ lay' = 0
    /\ UNCHANGED <<variant, doc, read_i, end_i, err, warned, res, arg, rundupe, todo,
                   out, written, lastw>>

NextCloud ==
    \/ CallWriteCld \/ WriteOpen \/ WriteRecord \/ WriteClose
    \/ CallReadCld \/ NextCldRead

SpecCloud == InitCloud /\ [][NextCloud]_vars

\* the Document before the re-read, the number of its cloudy layers, the
\* names of its cloud record
Before == IF phase = "write" THEN doc ELSE orig
Layers == Len(Before[Nm("LAY")].v)
CloudNames == get_fields(variant, Before, CloudRec(attr(Before, "INFLAG"))).val

\* C11: write_in_cld_rrtm writes the file: one C1.1 line, one line per cloudy
\* layer, the '%' line; read_in_cld_rrtm of the written file returns, and
\* each field of the cloud record then holds the n elements it held before,
\* in the same order.
C11_CloudRoundTrip ==
    /\ pc # "raised"
    /\ (phase = "write" /\ pc = "done") =>
          LET f == written["IN_CLD_RRTM"].lines
          IN  /\ Len(f) >= Layers + 2
              /\ f[1].rec = "C1.1"
              /\ \A i \in 2..(Layers + 1) : f[i].rec = CloudRec(attr(doc, "INFLAG"))
              /\ f[Layers + 2] = Percent
    /\ (phase = "cldread" /\ pc = "done") =>
          \A j \in DOMAIN CloudNames :
              /\ hasattr(doc, CloudNames[j])
              /\ doc[CloudNames[j]].v = orig[CloudNames[j]].v

-----------------------------------------------------------------------------
(* Claim about the files during a write, specification SpecWrite *)

\* C12: at every point of a write, each target file is either as it was
\* before the write (absent) or holds all its lines, the '%' line among
\* them; a reader never finds a file holding only the first lines.
C12_WriteAtomic ==
    \A p \in DOMAIN written :
        \E i \in DOMAIN written[p].lines : written[p].lines[i] = Percent

-----------------------------------------------------------------------------
(* Specification SpecDict: from_dict(args, file, lazy=False) on an empty    *)
(* Document.                                                                *)

\* the default " " of a field whose name contains 'CHAR'
Space == -2
HasCHAR(n) == n[1] \in {"TESTCHAR", "JCHARP", "JCHART", "JCHAR", "JCHARX"}

\* for name in required: if not hasattr(self, name): setattr(self, name, default)
RECURSIVE Require(_, _)
Require(d, names) ==
    IF names = <<>> THEN d
    ELSE Require(IF hasattr(d, Head(names)) THEN d
                 ELSE setattr(d, Head(names),
                              Scalar(IF Head(names) = Nm("NMOL") THEN 7 ELSE 0)),
                 Tail(names))

\* for name in names: if not hasattr(self, name): setattr(self, name, default)
RECURSIVE FillNames(_, _)
FillNames(d, names) ==
    IF names = <<>> THEN [err |-> "none", doc |-> d]
    ELSE IF ~IsString(Head(names)) THEN [err |-> "TypeError", doc |-> d]
    ELSE FillNames(IF hasattr(d, Head(names)) THEN d
                   ELSE setattr(d, Head(names),
                                Scalar(IF HasCHAR(Head(names)) THEN Space ELSE 0)),
                   Tail(names))

\* for record in records: names = self.get_fields(record); fill the names
RECURSIVE FillRecords(_, _, _)
FillRecords(v, d, records) ==
    IF records = <<>> THEN [err |-> "none", doc |-> d]
    ELSE LET names == get_fields(v, d, Head(records))
         IN  IF names.err # "none" THEN [err |-> names.err, doc |-> d]
             ELSE LET f == FillNames(d, names.val)
                  IN  IF f.err # "none" THEN f ELSE FillRecords(v, f.doc, Tail(records))

\* the fields of one file: the logical order of the file, then its names
Fill(v, d, file) ==
    LET records == get_logical_record_order(d, file)
    IN  IF records.err # "none" THEN [err |-> records.err, doc |-> d]
        ELSE FillRecords(v, d, records.val)

\* the values that a mapping handed to from_dict gives to a field
DictValues ==
    [IATM |-> {0, 1}, IXSECT |-> {1}, IXMOLS |-> {8}, INFLAG |-> {0, 1, 2},
     LAY |-> 0..MaxCld, NSTR |-> {0, 4}]

\* the mappings that supply some of the fields keys
RECURSIVE Mappings(_)
Mappings(keys) ==
    IF keys = <<>> THEN {<<>>}
    ELSE LET rest == Mappings(Tail(keys))
             k == Head(keys)
         IN  rest \cup {setattr(r, Nm(k), IF k = "LAY" THEN LayList(x) ELSE Scalar(x)) :
                          r \in rest, x \in DictValues[k]}

\* the mappings handed to from_dict
DictArgs == Mappings(<<"IATM", "IXSECT", "IXMOLS", "INFLAG", "LAY", "NSTR">>)

\* the files that the argument file selects, besides input_rrtm
Selects(f, file) ==
    \/ file = "input_rrtm"
    \/ file = "in_cld_rrtm" /\ f \in {"cld", "aercld"}
    \/ file = "in_aer_rrtm" /\ f \in {"aer", "aercld"}

InitDict ==
    /\ variant \in {"LW", "SW"}
    /\ arg \in [args : DictArgs, file : {"gas", "cld", "aer", "aercld"}]
    /\ doc = <<>>
    /\ lines = <<>> /\ read_i = 0 /\ end_i = 0 /\ pc = "call" /\ lay = 0
    /\ err = "none" /\ warned = FALSE /\ calls = <<>> /\ res = Pending
    /\ rundupe = <<>> /\ todo = <<>> /\ out = <<>> /\ written = NoFile
    /\ orig = <<>> /\ phase = "dict" /\ lastw = <<>>

DictFrame == <<variant, lines, read_i, end_i, lay, warned, res, arg, calls, rundupe,
               todo, out, written, orig, phase, lastw>>

\* from_dict up to the required fields of input_rrtm
DictSet ==
    /\ phase = "dict" /\ pc = "call"
    /\ doc' = Require(arg.args, <<Nm("IATM"), Nm("ICLD"), Nm("IAER"), Nm("NMOL"),
                                  Nm("IXSECT"), Nm("IXMOLS"), Nm("IBMAX"), Nm("MODEL"),
                                  Nm("IXSECT"), Nm("IPRFL")>>)
    /\ pc' = "input_rrtm"
    /\ UNCHANGED <<err, DictFrame>>

\* the fields of input_rrtm
DictInput ==
    /\ phase = "dict" /\ pc = "input_rrtm"
    /\ LET f == Fill(variant, doc, "input_rrtm")
       IN  /\ doc' = f.doc /\ err' = f.err
           /\ pc' = IF f.err # "none" THEN "raised"
                    ELSE IF Selects(arg.file, "in_cld_rrtm") THEN "in_cld_rrtm"
                    ELSE IF Selects(arg.file, "in_aer_rrtm") THEN "in_aer_rrtm"
                    ELSE "done"
    /\ UNCHANGED DictFrame

\* the fields of in_cld_rrtm
DictCld ==
    /\ phase = "dict" /\ pc = "in_cld_rrtm"
    /\ LET f == Fill(variant, Require(doc, <<Nm("INFLAG")>>), "in_cld_rrtm")
       IN  /\ doc' = f.doc /\ err' = f.err
           /\ pc' = IF f.err # "none" THEN "raised"
                    ELSE IF Selects(arg.file, "in_aer_rrtm") THEN "in_aer_rrtm"
                    ELSE "done"
    /\ UNCHANGED DictFrame

\* the fields of in_aer_rrtm
DictAer ==
    /\ phase = "dict" /\ pc = "in_aer_rrtm"
    /\ LET f == Fill(variant, Require(doc, <<Nm("INFLAG")>>), "in_aer_rrtm")
       IN  /\ doc' = f.doc /\ err' = f.err
           /\ pc' = IF f.err # "none" THEN "raised" ELSE "done"
    /\ UNCHANGED DictFrame

NextDict == DictSet \/ DictInput \/ DictCld \/ DictAer

SpecDict == InitDict /\ [][NextDict]_vars

\* C18: from_dict(args, file=f, lazy=False) on an empty Document raises
\* nothing; when it has returned, for each file that f selects every field
\* name of every record of the file's logical order is set, and a field that
\* args does not supply holds 0, or a blank for a character field (NMOL, a
\* control field of the order itself, holds 7).
C18_AutoFillComplete ==
    phase = "dict" =>
        /\ pc # "raised"
        /\ pc = "done" =>
              \A file \in {"input_rrtm", "in_cld_rrtm", "in_aer_rrtm"} :
                  Selects(arg.file, file) =>
                      LET o == get_logical_record_order(doc, file)
                      IN  /\ o.err = "none"
                          /\ \A r \in Range(o.val) :
                                LET fs == get_fields(variant, doc, r)
                                IN  /\ fs.err = "none"
                                    /\ \A n \in Range(fs.val) :
                                          /\ hasattr(doc, n)
                                          /\ ~hasattr(arg.args, n) =>
                                                doc[n] \in {Scalar(0), Scalar(Space),
                                                            Scalar(7)}

-----------------------------------------------------------------------------
(* Specification SpecSchema: the schema and order methods called, in any    *)
(* order and any number of times, on a Document whose read is under way.    *)

\* self after a method that pops the first element of each list it reads
Drained(d) ==
    [n \in DOMAIN d |-> IF IsList(d[n]) /\ d[n].v # <<>> THEN List(Tail(d[n].v)) ELSE d[n]]
\* self after one of the four methods: their bodies read attributes of self
\* and build local lists and dictionaries; none assigns, pops or deletes
Read(d) == d

\* record ids handed to get_format and get_fields, one of them unknown
SchemaRecords ==
    {"1.1", "1.2", "1.4", "2.1", "2.1.3", "2.2.5", "3.1", "3.3B", "3.5",
     "C1.1", "C1.2", "C1.3", "C1.3a", "C1.3A", "A2.1.1", "9.9"}

NoResult == [op |-> "none", a |-> "", r |-> Pending]

InitSchema ==
    /\ variant \in {"LW", "SW"}
    /\ doc \in CloudDocs
    /\ read_i \in 0..MaxLines /\ end_i = MaxLines
    /\ res = NoResult
    /\ lines = <<>> /\ pc = "idle" /\ lay = 0 /\ arg = <<>>
    /\ err = "none" /\ warned = FALSE /\ calls = <<>>
    /\ rundupe = <<>> /\ todo = <<>> /\ out = <<>> /\ written = NoFile
    /\ orig = <<>> /\ phase = "schema" /\ lastw = <<>>

SchemaFrame == <<variant, lines, end_i, pc, lay, err, warned, arg, calls, rundupe,
                 todo, out, written, orig, phase, lastw>>

SchemaLogical ==
    /\ phase = "schema"
    /\ \E file \in {"input_rrtm", "in_cld_rrtm", "in_aer_rrtm"} :
          res' = [op |-> "get_logical_record_order", a |-> file,
                  r |-> get_logical_record_order(doc, file)]
    /\ doc' = Read(doc) /\ read_i' = read_i
    /\ UNCHANGED SchemaFrame

SchemaExplicit ==
    /\ phase = "schema"
    /\ \E file \in {"input_rrtm", "in_cld_rrtm", "in_aer_rrtm"} :
          res' = [op |-> "get_explicit_record_order", a |-> file,
                  r |-> get_explicit_record_order(doc, file)]
    /\ doc' = Read(doc) /\ read_i' = read_i
    /\ UNCHANGED SchemaFrame

SchemaFormat ==
    /\ phase = "schema"
    /\ \E rec \in SchemaRecords :
          LET f == get_format(variant, doc, rec)
          IN  res' = [op |-> "get_format", a |-> rec, r |-> [err |-> f.err, val |-> <<>>]]
    /\ doc' = Read(doc) /\ read_i' = read_i
    /\ UNCHANGED SchemaFrame

SchemaFields ==
    /\ phase = "schema"
    /\ \E rec \in SchemaRecords :
          LET f == get_fields(variant, doc, rec)
          IN  res' = [op |-> "get_fields", a |-> rec, r |-> [err |-> f.err, val |-> <<>>]]
    /\ doc' = Read(doc) /\ read_i' = read_i
    /\ UNCHANGED SchemaFrame

NextSchema == SchemaLogical \/ SchemaExplicit \/ SchemaFormat \/ SchemaFields

SpecSchema == InitSchema /\ [][NextSchema]_vars

\* C20: a call of get_logical_record_order, get_explicit_record_order,
\* get_format or get_fields, whether it returns or raises, leaves every field
\* of the Document and the read cursor as they were.
C20_SchemaReadOnly == [][doc' = doc /\ read_i' = read_i]_vars

\* a schema method has raised on a Document that holds a non-empty list, the
\* read cursor in the middle of the file
C20_Witness ==
    /\ phase = "schema" /\ res.op = "get_fields" /\ res.r.err = "KeyError"
    /\ IsList(doc[Nm("LAY")]) /\ Len(doc[Nm("LAY")].v) = MaxCld
    /\ read_i > 0 /\ read_i < end_i

-----------------------------------------------------------------------------
(* Specification SpecPair: the order methods applied to two Documents, doc  *)
(* and orig, for the same file.                                             *)

\* the scalar control fields of the orders
ControlFields ==
    {"IATM", "NLAYRS", "NMOL", "IXSECT", "IXMOLS", "IBMAX", "MODEL", "IMMAX", "IPRFL",
     "LAYX", "INFLAG"}

\* LAY and CLDFRAC of a Document: a scalar x, or n elements each x
Sequences == {Scalar(x) : x \in {1, 2}} \cup {List([i \in 1..n |-> x]) : n \in 0..MaxCld, x \in {1, 2}}

PairDocs ==
    {setattr(setattr(MkDoc(c), Nm("LAY"), q), Nm("CLDFRAC"), q) :
        c \in {x \in CloudCtl : x.INFLAG \in {0, 1, 10}} \cup
              {x \in PrimaryCtl : x.IATM = 1 /\ x.IBMAX = 0 /\ x.MODEL = 0 /\ x.IXSECT = 0
                                  /\ x.NLAYRS = 0 /\ x.LAYX = 0 /\ x.IPRFL = 0
                                  /\ x.NMOL = 7 /\ x.IXMOLS = 7 /\ x.IMMAX = 1},
        q \in Sequences}

InitPair ==
    /\ variant \in {"LW", "SW"}
    /\ doc \in PairDocs /\ orig \in PairDocs
    /\ res = [op |-> "none", a |-> "", r |-> <<Pending, Pending>>]
    /\ lines = <<>> /\ read_i = 0 /\ end_i = 0 /\ pc = "idle" /\ lay = 0 /\ arg = <<>>
    /\ err = "none" /\ warned = FALSE /\ calls = <<>>
    /\ rundupe = <<>> /\ todo = <<>> /\ out = <<>> /\ written = NoFile
    /\ phase = "pair" /\ lastw = <<>>

PairFrame == <<variant, doc, lines, read_i, end_i, pc, lay, err, warned, arg, calls,
               rundupe, todo, out, written, orig, phase, lastw>>

PairLogical ==
    /\ phase = "pair"
    /\ \E file \in {"input_rrtm", "in_cld_rrtm"} :
          res' = [op |-> "get_logical_record_order", a |-> file,
                  r |-> <<get_logical_record_order(doc, file),
                          get_logical_record_order(orig, file)>>]
    /\ UNCHANGED PairFrame

PairExplicit ==
    /\ phase = "pair"
    /\ \E file \in {"input_rrtm", "in_cld_rrtm"} :
          res' = [op |-> "get_explicit_record_order", a |-> file,
                  r |-> <<get_explicit_record_order(doc, file),
                          get_explicit_record_order(orig, file)>>]
    /\ UNCHANGED PairFrame

NextPair == PairLogical \/ PairExplicit

SpecPair == InitPair /\ [][NextPair]_vars

\* the two Documents agree on the scalar control fields
Agree == \A b \in ControlFields : doc[Nm(b)] = orig[Nm(b)]
\* LAY is a list in both or in neither, with as many elements
SameLayers ==
    /\ IsList(doc[Nm("LAY")]) <=> IsList(orig[Nm("LAY")])
    /\ Len(doc[Nm("LAY")].v) = Len(orig[Nm("LAY")].v)

\* C21 as stated: two Documents that agree on the scalar control fields get
\* the same logical order and the same explicit order, for either file,
\* whatever their sequence-valued fields hold.
C21_OrdersOfScalarsOnly ==
    (phase = "pair" /\ res.op # "none" /\ Agree) => res.r[1] = res.r[2]

\* C21 amended: two Documents that agree on the scalar control fields and on
\* the number of elements of LAY (a list in both or a scalar in both) get
\* the same logical order and the same explicit order, for either file,
\* whatever the elements of their sequence-valued fields are.
C21_OrdersOfScalarsAndLayers ==
    (phase = "pair" /\ res.op # "none" /\ Agree /\ SameLayers) => res.r[1] = res.r[2]

\* the explicit cloud order of two Documents that agree on the control
\* fields and hold three cloudy layers each, with different elements
C21_Witness ==
    /\ phase = "pair" /\ res.op = "get_explicit_record_order" /\ res.a = "in_cld_rrtm"
    /\ Agree /\ SameLayers
    /\ IsList(doc[Nm("LAY")]) /\ Len(doc[Nm("LAY")].v) = MaxCld
    /\ doc[Nm("LAY")] # orig[Nm("LAY")]
    /\ res.r[1].err = "none" /\ Len(res.r[1].val) = MaxCld + 1

-----------------------------------------------------------------------------
(* Specification SpecKind: write(fpath, file) for each value of file *)

\* the list files of Input.write
Files(d, file) ==
    IF file # "auto" THEN Ok(<<>>)
    ELSE IF Lacks(d, {"ICLD"}) \/ Lacks(d, {"IAER"}) THEN Raise("AttributeError")
    ELSE Ok(<<"input_rrtm">>
            \o When(attr(d, "ICLD") > 0, <<"in_cld_rrtm">>)
            \o When(attr(d, "IAER") > 0, <<"in_aer_rrtm">>))

InitKind ==
    /\ variant \in {"LW", "SW"}
    /\ doc \in {FullDoc(variant, c, 1, aslist) : c \in WriteCtl(variant), aslist \in BOOLEAN}
    /\ res \in {"auto", "input_rrtm", "in_cld_rrtm", "in_aer_rrtm"}
    /\ lines = <<>> /\ read_i = 0 /\ end_i = 0 /\ pc = "call" /\ lay = 0
    /\ err = "none" /\ warned = FALSE /\ calls = <<>> /\ arg = <<>>
    /\ rundupe = <<>> /\ todo = <<>> /\ out = <<>> /\ written = NoFile
    /\ orig = <<>> /\ phase = "write" /\ lastw = <<>>

\* Input.write(fpath, file=res) up to the loop over files
CallWriteKind ==
    /\ phase = "write" /\ pc = "call"
    /\ LET files == Files(doc, res)
       IN  IF files.err # "none"
           THEN pc' = "raised" /\ err' = files.err /\ arg' = <<>>
           ELSE /\ arg' = [i \in DOMAIN files.val |-> Job(files.val[i])]
                /\ pc' = "open" /\ err' = err
    /\ UNCHANGED <<variant, doc, lines, read_i, end_i, lay, warned, res, calls,
                   rundupe, todo, out, written, orig, phase, lastw>>

NextKind == CallWriteKind \/ WriteOpen \/ WriteRecord \/ WriteClose

SpecKind == InitKind /\ [][NextKind]_vars

\* C22: when write(fpath, file=k) has ended, k one of 'input_rrtm',
\* 'in_cld_rrtm', 'in_aer_rrtm', the file of kind k and no other is written,
\* under its default name, from the records of kind k.
C22_WritesTheKind ==
    (Ended /\ res # "auto") =>
        /\ DOMAIN written = {Path(res)}
        /\ written[Path(res)].from = res

-----------------------------------------------------------------------------
(* Specification SpecErrors: a primary file is read; then the Document is   *)
(* written with write_input_rrtm and the written file read again, or        *)
(* read_in_cld_rrtm reads a cloud file.                                     *)

InitErrors ==
    /\ variant \in {"LW", "SW"}
    /\ lines \in {GenFile(variant, c) : c \in FileCtl(variant) \cup PathsCtl(variant)}
    /\ arg \in {<<>>, <<"IN_CLD_RRTM">>}
    /\ written \in {setattr(NoFile, "IN_CLD_RRTM",
                            [from |-> "in_cld_rrtm", lines |-> GenCld(variant, f, n)]) :
                        f \in {0, 2, 10}, n \in {1, MaxCld}}
    /\ doc = <<>> /\ read_i = 0 /\ end_i = 0 /\ pc = "start" /\ lay = 0
    /\ err = "none" /\ warned = FALSE /\ calls = <<>> /\ res = Pending
    /\ rundupe = <<>> /\ todo = <<>> /\ out = <<>>
    /\ orig = <<>> /\ phase = "read" /\ lastw = <<>>

NextErrors == NextRoundTrip \/ OpenSecond \/ NextCldRead

SpecErrors == InitErrors /\ [][NextErrors]_vars

\* a read method is about to decode the record pc, and the schema of the
\* record raises: no format, no field list, or a name that is no string
DecodeRaises ==
    /\ phase \in {"read", "reread", "cldread"}
    /\ pc \notin {"start", "check", "done", "raised"}
    /\ read_i < Len(lines)
    /\ \/ get_format(variant, doc, pc).err # "none"
       \/ get_fields(variant, doc, pc).err # "none"
       \/ \E n \in Range(get_fields(variant, doc, pc).val) : ~IsString(n)

\* write_input_rrtm is about to encode a record, and write_record raises
EncodeRaises ==
    /\ phase = "write" /\ pc = "rec" /\ todo # <<>>
    /\ write_record(variant, rundupe, Head(todo)).err # "none"

\* C23: when decoding or encoding a record raises, the read or write method
\* raises at that step: the cursor stays on the line, the record stays first
\* of those to encode, every field set before keeps its value; and after a
\* method has raised nothing more is decoded or encoded.
C23_ErrorsSurfaceAtOnce ==
    [][/\ pc # "raised"
       /\ (DecodeRaises \/ EncodeRaises) =>
             /\ pc' = "raised" /\ err' # "none"
             /\ read_i' = read_i /\ todo' = todo
       /\ pc' = "raised" =>
             \A n \in DOMAIN doc : hasattr(doc', n) /\ doc'[n] = doc[n]]_vars

\* read_in_cld_rrtm has raised on its second record, the fields of the
\* primary file and of record C1.1 set
C23_Witness ==
    /\ phase = "cldread" /\ pc = "raised" /\ err \in {"KeyError", "TypeError"}
    /\ Len(calls) > 3 /\ calls[Len(calls)].rec \in {"C1.1", "C1.3"}
    /\ hasattr(doc, Nm("INFLAG")) /\ hasattr(doc, Nm("IATM"))

-----------------------------------------------------------------------------
(* Specification SpecDepth: read_record called in the modes 'append' and    *)
(* 'append depth' on the lines of record C1.3A, the fields of the record    *)
(* holding scalars, lists or lists of lists.                                *)

\* what a field of record C1.3A holds before the calls
DepthValues ==
    {Scalar(7), List(<<>>), List(<<7>>), List(<<7, 8>>),
     Nested(<<Scalar(7), List(<<8, 9>>)>>)}

DepthLines == [i \in 1..MaxLines |-> Line(" ", "C1.3A", <<100 * i + 1, 100 * i + 2, 100 * i + 3>>)]

InitDepth ==
    /\ variant \in {"LW", "SW"}
    /\ \E nstr \in {0, 1}, tau \in DepthValues, ssa \in DepthValues, pmom \in DepthValues :
          doc = setattr(setattr(setattr(MkDoc([NSTR |-> nstr]), Nm("TAUCLD"), tau),
                                Nm("SINGLE-SCATTERING ALBEDO"), ssa), <<"PMOM", 0>>, pmom)
    /\ lines = DepthLines /\ read_i = 0 /\ end_i = MaxLines
    /\ res = "none" /\ pc = "idle" /\ lay = 0 /\ arg = <<>>
    /\ err = "none" /\ warned = FALSE /\ calls = <<>>
    /\ rundupe = <<>> /\ todo = <<>> /\ out = <<>> /\ written = NoFile
    /\ orig = <<>> /\ phase = "depth" /\ lastw = <<>>

\* read_record(rec, mode) called on the Document
CallRecord(rec, mode) ==
    /\ phase = "depth" /\ pc = "idle" /\ read_i < Len(lines)
    /\ LET r == read_record(variant, doc, lines, read_i, rec, mode)
       IN  /\ doc' = r.doc /\ read_i' = r.read_i
           /\ calls' = IF r.call = NoCall THEN calls ELSE Append(calls, r.call)
           /\ err' = r.err
           /\ pc' = IF r.err = "none" THEN pc ELSE "raised"
    /\ res' = mode
    /\ UNCHANGED <<variant, lines, end_i, lay, warned, arg, rundupe, todo, out,
                   written, orig, phase, lastw>>

ReadAppend == \E rec \in {"C1.3A", "C1.3a"} : CallRecord(rec, "append")
ReadDepth == \E rec \in {"C1.3A", "C1.3a"} : CallRecord(rec, "append depth")

NextDepth == ReadAppend \/ ReadDepth

SpecDepth == InitDepth /\ [][NextDepth]_vars

\* the names that the last call has assigned, and the value decoded for n
Assigned(c) == {c.names[j] : j \in 1..Min(Len(c.names), Len(c.fields))}
ValueOf(c, n) == c.fields[CHOOSE j \in DOMAIN c.names : c.names[j] = n]

\* C24: a read_record call in mode 'append depth' that returns advances the
\* cursor by one line and, for each name it decodes, leaves the outer list
\* with as many elements as before, the earlier elements as they were, and
\* the last element a list: what it held before (a scalar as a list of one
\* element) followed by the decoded value.
C24_AppendDepth ==
    [][(res' = "append depth" /\ err' = "none") =>
          /\ read_i' = read_i + 1
          /\ Len(calls') = Len(calls) + 1
          /\ \A n \in Assigned(calls'[Len(calls')]) :
                LET old == Elements(doc[n])
                    new == Elements(doc'[n])
                    m == Len(old)
                IN  /\ doc[n].t # "s" /\ m > 0
                    /\ Len(new) = m
                    /\ \A i \in 1..(m - 1) : new[i] = old[i]
                    /\ new[m] = List(Append(Promote(old[m]),
                                            ValueOf(calls'[Len(calls')], n)))
          /\ \A n \in DOMAIN doc \ Assigned(calls'[Len(calls')]) : doc'[n] = doc[n]]_vars

\* two calls in mode 'append depth' have returned: the last element of
\* TAUCLD, a scalar before, holds three values
C24_Witness ==
    /\ phase = "depth" /\ res = "append depth" /\ err = "none" /\ read_i = 2
    /\ doc[Nm("TAUCLD")] = Nested(<<Scalar(7), List(<<8, 101, 201>>)>>)

-----------------------------------------------------------------------------
(* Specification SpecBroadcast: broadcast_scalars(file) on a Document whose *)
(* fields of repeated records are lists, scalars, or some of each.          *)

\* the characters of the string 'input_rrtm': what `for file in files`
\* iterates over when files = ('input_rrtm'), a string and not a tuple
Characters == <<"i", "n", "p", "u", "t", "_", "r", "r", "t", "m">>

\* the sequence files of broadcast_scalars
BroadcastFiles(file) ==
    CASE file = "cld" -> Ok(<<"input_rrtm", "in_cld_rrtm">>)
      [] file = "gas" -> Ok(Characters)
      [] file = "aer" -> Ok(<<"input_rrtm", "in_aer_rrtm">>)
      [] file = "aercld" -> Raise("UnboundLocalError")
      [] OTHER -> Ok(<<file>>)

\* for name in names: val = getattr(self, name); a scalar becomes [val]*length
RECURSIVE BroadcastNames(_, _, _)
BroadcastNames(d, names, length) ==
    IF names = <<>> THEN [err |-> "none", doc |-> d]
    ELSE IF ~IsString(Head(names)) THEN [err |-> "TypeError", doc |-> d]
    ELSE IF ~hasattr(d, Head(names)) THEN [err |-> "AttributeError", doc |-> d]
    ELSE BroadcastNames(IF IsList(d[Head(names)]) THEN d
                        ELSE setattr(d, Head(names),
                                     List(Rep(<<d[Head(names)].v[1]>>, length))),
                        Tail(names), length)

\* for record in records: if Input.islist(record): broadcast its names
RECURSIVE BroadcastRecords(_, _, _)
BroadcastRecords(v, d, records) ==
    IF records = <<>> THEN [err |-> "none", doc |-> d]
    ELSE IF ~islist(Head(records)) THEN BroadcastRecords(v, d, Tail(records))
    ELSE LET length == record_len(d, Head(records))
             names == get_fields(v, d, Head(records))
         IN  IF length.err # "none" THEN [err |-> length.err, doc |-> d]
             ELSE IF names.err # "none" THEN [err |-> names.err, doc |-> d]
             ELSE LET b == BroadcastNames(d, names.val, length.val)
                  IN  IF b.err # "none" THEN b
                      ELSE BroadcastRecords(v, b.doc, Tail(records))

\* a list field of d holds its first element instead, when its base name is
\* in bases
Scalars(d, bases) ==
    [n \in DOMAIN d |-> IF IsList(d[n]) /\ d[n].v # <<>> /\ n[1] \in bases
                        THEN Scalar(d[n].v[1]) ELSE d[n]]

AllBases == {"PAVE", "TAVE", "PZ(L-1)", "TZ(L-1)", "PZ(L)", "TZ(L)", "WKL", "WBROAD(L)",
             "XAMNT", "ZM", "PM", "TM", "JCHARP", "JCHART", "JCHAR", "VMOL", "ZORP",
             "JCHARX", "DENX", "TESTCHAR", "LAY", "CLDFRAC", "CWP", "FRACICE",
             "EFFSIZEICE", "EFFSIZELIQ", "_"}

InitBroadcast ==
    /\ variant \in {"LW", "SW"}
    /\ \E c \in {x \in WriteCtl(variant) : x.ICLD = 1 /\ x.IAER = 0},
          bases \in {{}, {"PAVE", "ZM", "CLDFRAC", "VMOL"}, AllBases} :
          doc = Scalars(FullDoc(variant, c, MaxCld, TRUE), bases)
    /\ res \in {"gas", "cld", "aer", "aercld", "input_rrtm"}
    /\ orig = doc
    /\ lines = <<>> /\ read_i = 0 /\ end_i = 0 /\ pc = "call" /\ lay = 0
    /\ err = "none" /\ warned = FALSE /\ calls = <<>> /\ arg = <<>>
    /\ rundupe = <<>> /\ todo = <<>> /\ out = <<>> /\ written = NoFile
    /\ phase = "broadcast" /\ lastw = <<>>

BroadcastFrame == <<variant, lines, read_i, end_i, lay, warned, res, arg, calls, rundupe,
                    out, written, orig, phase, lastw>>

\* broadcast_scalars(file=res) up to the loop over files
BroadcastCall ==
    /\ phase = "broadcast" /\ pc = "call"
    /\ LET files == BroadcastFiles(res)
       IN  IF files.err # "none"
           THEN pc' = "raised" /\ err' = files.err /\ todo' = todo
           ELSE pc' = "file" /\ err' = err /\ todo' = files.val
    /\ UNCHANGED <<doc, BroadcastFrame>>

\* one pass of the loop over files; the return after the last
BroadcastFile ==
    /\ phase = "broadcast" /\ pc = "file"
    /\ IF todo = <<>>
       THEN pc' = "done" /\ UNCHANGED <<doc, err, todo>>
       ELSE LET records == get_logical_record_order(doc, Head(todo))
                b == BroadcastRecords(variant, doc, records.val)
            IN  IF records.err # "none"
                THEN pc' = "raised" /\ err' = records.err /\ UNCHANGED <<doc, todo>>
                ELSE /\ doc' = b.doc /\ err' = b.err
                     /\ IF b.err # "none" THEN pc' = "raised" /\ todo' = todo
                        ELSE pc' = pc /\ todo' = Tail(todo)
    /\ UNCHANGED BroadcastFrame

NextBroadcast == BroadcastCall \/ BroadcastFile

SpecBroadcast == InitBroadcast /\ [][NextBroadcast]_vars

\* the files that an option selects
Selected(file) ==
    CASE file = "gas" -> {"input_rrtm"}
      [] file = "cld" -> {"input_rrtm", "in_cld_rrtm"}
      [] file = "aer" -> {"input_rrtm", "in_aer_rrtm"}
      [] file = "aercld" -> {"input_rrtm", "in_cld_rrtm", "in_aer_rrtm"}
      [] OTHER -> {file}

\* the repeated records of the selected files, in the Document before the call
RepeatedOf(file) ==
    UNION {{r \in Range(get_logical_record_order(orig, f).val) : islist(r)} :
             f \in Selected(file)}

\* C25: broadcast_scalars(file), file one of 'gas', 'aer', 'cld', 'aercld',
\* raises nothing; when it has returned, every field of every repeated record
\* of the selected files is a list, record_len copies of the scalar it held
\* or the list it held, and every other field is unchanged.
C25_BroadcastScalars ==
    (phase = "broadcast" /\ res \in {"gas", "aer", "cld", "aercld"}) =>
        /\ pc # "raised"
        /\ pc = "done" =>
              /\ \A f \in Selected(res) : get_logical_record_order(orig, f).err = "none"
              /\ \A r \in RepeatedOf(res) :
                    \A n \in Range(get_fields(variant, orig, r).val) :
                        /\ hasattr(doc, n) /\ IsList(doc[n])
                        /\ doc[n] = IF IsList(orig[n]) THEN orig[n]
                                    ELSE List(Rep(orig[n].v, record_len(orig, r).val))
              /\ \A n \in DOMAIN orig :
                    (\A r \in RepeatedOf(res) :
                        n \notin Range(get_fields(variant, orig, r).val)) =>
                    doc[n] = orig[n]

-----------------------------------------------------------------------------
\* Runner.run.  arg holds inputs, written the worker directories self.dirs,
\* res the locals of run, lay the index of the running for loop.

\* an input of Runner.run: its ICLD, and whether the caller gave it a name
RunInputs == [ICLD : {0, 1}, name : BOOLEAN]

\* a worker directory after Runner.mkdirs: INPUT_RRTM is absent, or a folder
\* of that name has been put there; no output, no log
WorkerDir(folder) == [folder |-> folder, file |-> 0, output |-> <<>>, log |-> <<>>]

\* Runner.mkdirs: one directory for each i in range(n_workers)
mkdirs(n_workers, folders) == [j \in 1..n_workers |-> WorkerDir(folders[j])]

\* the rm of the wipe, without -r, and the opening of rrtm.log for writing:
\* files go, a folder INPUT_RRTM and what it holds stay
Wipe(dir) == [dir EXCEPT !.output = <<>>, !.log = <<>>]

\* input.write of the submit loop: a list of paths when input.ICLD is set,
\* else the path dir/'INPUT_RRTM', which Input.write takes for the folder
RunWrite(input, dir) ==
    IF input.ICLD # 0 THEN Raise("TypeError")
    ELSE IF ~dir.folder THEN Raise("FileNotFoundError")
    ELSE Ok("INPUT_RRTM/INPUT_RRTM")

\* the job whose result the program in dir computes: it reads the file
\* INPUT_RRTM of its working directory (0: the result of no input)
JobOf(dir) == IF dir.folder THEN 0 ELSE dir.file

\* the last lines a log can hold
Logs == {<<>>, <<"FORTRAN STOP">>, <<"Warning: ieee_inexact is signaling">>}

\* read_output(dir/'OUTPUT_RRTM'): the result the file holds
read_output(dir) ==
    IF dir.output = <<>> THEN Raise("FileNotFoundError") ELSE Ok(dir.output[1])

Locals(i, verbose) ==
    [i |-> i, start |-> i, ps |-> <<>>, outputs |-> <<>>, logs |-> <<>>,
     verbose |-> verbose]

InitRun ==
    /\ variant \in {"LW", "SW"}
    /\ \E n \in 0..MaxJobs : arg \in [1..n -> RunInputs]
    /\ \E n \in 0..MaxWorkers : written \in {mkdirs(n, f) : f \in [1..n -> BOOLEAN]}
    /\ res \in {Locals(0, v) : v \in BOOLEAN}
    /\ doc = <<>> /\ lines = <<>> /\ read_i = 0 /\ end_i = 0 /\ pc = "while"
    /\ lay = 0 /\ err = "none" /\ warned = FALSE /\ calls = <<>>
    /\ rundupe = <<>> /\ todo = <<>> /\ out = <<>>
    /\ orig = <<>> /\ phase = "run" /\ lastw = <<>>

RunFrame == <<variant, doc, lines, read_i, end_i, warned, arg, calls, rundupe,
              todo, out, orig, phase, lastw>>

\* the test of the while loop; the wipe of the directories and the opening
\* of the logs, or the return of outputs and logs
RunWhile ==
    /\ phase = "run" /\ pc = "while"
    /\ IF res.i < Len(arg)
       THEN /\ written' = [j \in DOMAIN written |-> Wipe(written[j])]
            /\ res' = [res EXCEPT !.ps = <<>>, !.start = res.i]
            /\ pc' = "submit" /\ lay' = 1
       ELSE pc' = "done" /\ UNCHANGED <<written, res, lay>>
    /\ UNCHANGED <<err, RunFrame>>

\* one pass of the submit loop: the write of inputs[i] into dirs[j] and the
\* start of the program there; or the end of the loop
RunSubmit ==
    /\ phase = "run" /\ pc = "submit"
    /\ IF lay > Len(written) \/ ~(res.i < Len(arg))
       THEN pc' = "wait" /\ lay' = 1 /\ UNCHANGED <<written, res, err>>
       ELSE LET input == arg[res.i + 1]
                w == RunWrite(input, written[lay])
            IN  IF res.verbose /\ ~input.name
                THEN /\ pc' = "raised" /\ err' = "AttributeError"
                     /\ UNCHANGED <<written, res, lay>>
                ELSE IF w.err # "none"
                THEN /\ pc' = "raised" /\ err' = w.err
                     /\ UNCHANGED <<written, res, lay>>
                ELSE /\ written' = [written EXCEPT ![lay].file = res.i + 1]
                     /\ res' = [res EXCEPT
                                  !.ps = Append(@, [job |-> res.i + 1, state |-> "running",
                                                    rc |-> 0]),
                                  !.i = @ + 1]
                     /\ lay' = lay + 1 /\ UNCHANGED <<pc, err>>
    /\ UNCHANGED RunFrame

\* a started program exits: with some return code, after writing OUTPUT_RRTM
\* or not, with some log
ProcExit ==
    /\ phase = "run" /\ pc \in {"submit", "wait"}
    /\ \E k \in DOMAIN res.ps :
          /\ res.ps[k].state = "running"
          /\ \E rc \in {0, 1}, output \in {<<>>, <<JobOf(written[k])>>}, log \in Logs :
                /\ res' = [res EXCEPT !.ps[k].state = "exited", !.ps[k].rc = rc]
                /\ written' = [written EXCEPT ![k].output = output, ![k].log = log]
    /\ UNCHANGED <<pc, lay, err, RunFrame>>

\* one pass of the wait loop: p.wait() returns when the program has exited
RunWait ==
    /\ phase = "run" /\ pc = "wait"
    /\ IF lay > Len(res.ps)
       THEN pc' = "collect" /\ lay' = 1 /\ err' = err
       ELSE /\ res.ps[lay].state = "exited"
            /\ IF res.ps[lay].rc # 0
               THEN pc' = "raised" /\ err' = "CalledProcessError" /\ lay' = lay
               ELSE pc' = pc /\ err' = err /\ lay' = lay + 1
    /\ UNCHANGED <<written, res, RunFrame>>

\* one pass of the collect loop over zip(ps, self.dirs)
RunCollect ==
    /\ phase = "run" /\ pc = "collect"
    /\ IF lay > Len(res.ps)
       THEN pc' = "while" /\ UNCHANGED <<res, lay, err>>
       ELSE LET o == read_output(written[lay])
                log == written[lay].log
            IN  IF o.err # "none"
                THEN pc' = "raised" /\ err' = o.err /\ UNCHANGED <<res, lay>>
                ELSE IF log = <<>>
                THEN /\ pc' = "raised" /\ err' = "IndexError" /\ lay' = lay
                     /\ res' = [res EXCEPT !.outputs = Append(@, o.val)]
                ELSE IF log[Len(log)] # "FORTRAN STOP"
                THEN /\ pc' = "raised" /\ err' = "UserError" /\ lay' = lay
                     /\ res' = [res EXCEPT !.outputs = Append(@, o.val)]
                ELSE /\ res' = [res EXCEPT !.outputs = Append(@, o.val),
                                           !.logs = Append(@, log)]
                     /\ lay' = lay + 1 /\ UNCHANGED <<pc, err>>
    /\ UNCHANGED <<written, RunFrame>>

NextRun == RunWhile \/ RunSubmit \/ ProcExit \/ RunWait \/ RunCollect

SpecRun == InitRun /\ [][NextRun]_vars

\* the inputs are processed in batches of at most n_workers, each in a
\* directory of its own
Batches ==
    /\ Len(res.ps) <= Len(written)
    /\ \A k \in DOMAIN res.ps :
          /\ res.ps[k].job = res.start + k
          /\ written[k].file = res.ps[k].job

\* the outputs of a batch are read only after all its programs exited with 0
Barrier ==
    pc = "collect" =>
        \A k \in DOMAIN res.ps : res.ps[k].state = "exited" /\ res.ps[k].rc = 0

\* C26: Runner.run processes the inputs in batches of at most n_workers,
\* each input written to and run in one worker directory of its own; it reads
\* the outputs of a batch only after every program of the batch has exited
\* with return code 0; it raises only when a program failed, and it returns
\* the output and the log of every input, in the order of the inputs.
C26_BatchBarrier ==
    phase = "run" =>
        /\ Batches
        /\ Barrier
        /\ pc = "raised" => err \in {"CalledProcessError", "UserError"}
        /\ pc = "done" =>
              /\ res.outputs = [k \in DOMAIN arg |-> k]
              /\ Len(res.logs) = Len(arg)

\* C30: every pass of the while loop of Runner.run that reaches its end has
\* increased the job index i, for every n_workers >= 0.
C30_PassAdvances ==
    [][(phase = "run" /\ pc = "collect" /\ pc' = "while") => res.i > res.start]_vars

-----------------------------------------------------------------------------
\* the read_record calls that the running read method has made
CallsOfRead ==
    {k \in DOMAIN calls :
        phase = "cldread" => calls[k].rec \in {"C1.1", "C1.2", "C1.3", "C1.3a"}}

\* C27: during read_input_rrtm and read_in_cld_rrtm the cursor read_i never
\* passes the index of the '%' line, no record is decoded from the '%' line or
\* from a line after it, and no line beyond the end of the file is accessed.
C27_CursorBound ==
    phase \in {"read", "cldread"} =>
        /\ read_i <= end_i
        /\ err # "IndexError"
        /\ \A k \in CallsOfRead : calls[k].at < end_i

-----------------------------------------------------------------------------
\* the field names of a record of the Document
RecordNames(r) == Range(get_fields(variant, doc, r).val)

\* C28: the field-name lists of two distinct records of the explicit order of
\* the Document are disjoint, and two read_record calls for distinct records
\* never assign to the same field.
C28_FieldNamesDisjoint ==
    /\ LET order == get_explicit_record_order(doc, "input_rrtm")
       IN  (phase \in {"read", "reread"} /\ order.err = "none") =>
               \A r1, r2 \in Range(order.val) :
                   r1 # r2 => RecordNames(r1) \cap RecordNames(r2) = {}
    /\ \A i, j \in DOMAIN calls :
          calls[i].rec # calls[j].rec =>
              Range(calls[i].names) \cap Range(calls[j].names) = {}

-----------------------------------------------------------------------------
(* Specification SpecTwice: write_record applied to a Document directly, then *)
(* one of the three file writers called twice on that Document.             *)

\* records handed to write_record directly
DirectRecords == {"2.1.1", "C1.2"}

InitTwice ==
    /\ variant \in {"LW", "SW"}
    /\ doc \in {FullDoc(variant, c, MaxCld, TRUE) :
                    c \in {x \in WriteCtl(variant) : x.ICLD = 1 /\ x.IAER = 0}}
    /\ orig = doc
    /\ lines = <<>> /\ read_i = 0 /\ end_i = 0 /\ pc = "call" /\ lay = 0
    /\ err = "none" /\ warned = FALSE /\ calls = <<>> /\ res = Pending /\ arg = <<>>
    /\ rundupe = <<>> /\ todo = <<>> /\ out = <<>> /\ written = NoFile
    /\ phase = "write" /\ lastw = <<>>

\* self.write_record(rec) on the Document itself
WriteDirect ==
    /\ phase = "write" /\ pc = "call" /\ res = Pending
    /\ \E rec \in DirectRecords :
          LET w == write_record(variant, doc, rec)
          IN  doc' = w.doc /\ orig' = w.doc
    /\ UNCHANGED <<variant, lines, read_i, end_i, pc, lay, err, warned, res, arg, calls,
                   rundupe, todo, out, written, phase, lastw>>

\* the first call of write_input_rrtm, write_in_cld_rrtm or write_in_aer_rrtm
CallWriter ==
    /\ phase = "write" /\ pc = "call" /\ res = Pending
    /\ \E kind \in {"input_rrtm", "in_cld_rrtm", "in_aer_rrtm"} :
          /\ arg' = <<[kind |-> kind, path |-> Path(kind)]>>
          /\ res' = [kind |-> kind, n |-> 1, first |-> <<>>]
    /\ pc' = "open"
    /\ UNCHANGED <<variant, doc, lines, read_i, end_i, lay, err, warned, calls,
                   rundupe, todo, out, written, orig, phase, lastw>>

\* the second call of the same writer, after the first has returned
WriteAgain ==
    /\ phase = "write" /\ pc = "done" /\ res # Pending /\ res.n = 1
    /\ arg' = <<[kind |-> res.kind, path |-> Path(res.kind)]>>
    /\ res' = [res EXCEPT !.n = 2, !.first = written[Path(res.kind)].lines]
    /\ pc' = "open"
    /\ UNCHANGED <<variant, doc, lines, read_i, end_i, lay, err, warned, calls,
                   rundupe, todo, out, written, orig, phase, lastw>>

NextTwice ==
    WriteDirect \/ CallWriter \/ WriteOpen \/ WriteRecord \/ WriteClose \/ WriteAgain

SpecTwice == InitTwice /\ [][NextTwice]_vars

\* C29: while and after write_input_rrtm, write_in_cld_rrtm or
\* write_in_aer_rrtm runs, every field of the calling Document is as it was
\* when the writer was called, and when the second of two consecutive writes
\* has returned, the lines it wrote are the lines the first wrote.
C29_WriteKeepsDocument ==
    /\ doc = orig
    /\ (res # Pending /\ res.n = 2 /\ pc = "done") =>
           written[Path(res.kind)].lines = res.first

\* the second write of INPUT_RRTM has returned; the Document holds lists that
\* a direct write_record has shortened, and the writer's copy is drained
C29_Witness ==
    /\ res # Pending /\ res.n = 2 /\ pc = "done" /\ res.kind = "input_rrtm"
    /\ Len(res.first) > 4
    /\ rundupe # doc
    /\ \E n \in DOMAIN doc : IsList(doc[n]) /\ Len(doc[n].v) > 1
    /\ \E n \in DOMAIN doc : IsList(doc[n]) /\ doc[n].v = <<>>

====
